---- MODULE Spec2Model ----
(***************************************************************************)
(* graphile-postgis: the GeoJSON validation engine (src/validation.ts),    *)
(* the PostGIS codec (src/codec.ts, createPostGISCodec) and the mutation   *)
(* write path (src/mutationUtils.ts, sqlValueWithPostGISCodec).            *)
(*                                                                         *)
(* JavaScript values are tagged records [k |-> kind, v |-> payload]:       *)
(*   undefined, null, number, string, array (v a sequence of values),      *)
(*   object (v a function from property names to values) and text, a       *)
(*   string that holds a serialized JSON value (v the value it parses to). *)
(***************************************************************************)
EXTENDS Integers, Sequences, FiniteSets, TLC

\* ------------------------------------------------------------------ bounds
\* Deepest nesting of the coordinates arrays that are enumerated.
MaxDepth == 3
\* Most ordinates in one enumerated position.
MaxOrd == 2
\* Most members of an outer (ring list, part list) array.
MaxParts == 1
\* Most calls of getPostGISGeometryType made through the build, beside the
\* init hook's own.
MaxResolves == 2
\* Most columns the gather phase decides a codec for.
MaxColumns == 2
\* Most rings of a polygon a field resolver is given.
MaxRings == 3
\* Most members of a line string, a multi geometry or a collection a field
\* resolver is given.
MaxMembers == 2
\* Most runs of the build hook of PostgisMutationPlugin in one process.
MaxHookRuns == 3

\* ------------------------------------------------------- JavaScript values
Undef == [k |-> "undefined", v |-> <<>>]
Null == [k |-> "null", v |-> <<>>]
Num(n) == [k |-> "number", v |-> n]
Str(s) == [k |-> "string", v |-> s]
Arr(s) == [k |-> "array", v |-> s]
Obj(f) == [k |-> "object", v |-> f]
Text(x) == [k |-> "text", v |-> x]

\* value == null (loose equality): null or undefined.
IsNullish(x) == x.k \in {"null", "undefined"}
\* Array.isArray(x)
IsArray(x) == x.k = "array"
\* typeof x === "number"
IsNumber(x) == x.k = "number"
\* typeof x === "object" (null and arrays included, as in JavaScript)
TypeofObject(x) == x.k \in {"object", "array", "null"}
\* !x : the falsy values that occur in the model.
Falsy(x) ==
    \/ IsNullish(x)
    \/ x.k = "string" /\ x.v = ""
    \/ x.k = "number" /\ x.v = 0
\* x.p : property read; an absent property (and any property of a primitive
\* or of an array here) reads as undefined.
Get(x, p) == IF x.k = "object" /\ p \in DOMAIN x.v THEN x.v[p] ELSE Undef
\* p in x
HasKey(x, p) == x.k = "object" /\ p \in DOMAIN x.v

\* --------------------------------------------------- src/validation.ts
\* A GeoJSONValidationError.  `field` is the field name and `path` the index
\* chain that follows it ("coordinates[2][0]" is field "coordinates", path
\* <<2, 0>>); `message` is the message template and `args` the values the
\* template interpolates, in order.
Error(field, path, message, args) ==
    [field |-> field, path |-> path, message |-> message, args |-> args]

validTypes ==
    << "Point", "LineString", "Polygon", "MultiPoint", "MultiLineString",
       "MultiPolygon", "GeometryCollection", "Feature", "FeatureCollection" >>

Range(s) == {s[i] : i \in DOMAIN s}

\* validTypes.includes(t)
IsValidType(t) == t.k = "string" /\ t.v \in Range(validTypes)

validateGeoJSONStructure(value) ==
    IF IsNullish(value) THEN <<>>
    ELSE IF ~TypeofObject(value) \/ IsArray(value)
    THEN << Error("root", <<>>, "GeoJSON must be an object", <<>>) >>
    ELSE IF Falsy(Get(value, "type"))
    THEN << Error("type", <<>>, "GeoJSON must have a 'type' property", <<>>) >>
    ELSE IF ~IsValidType(Get(value, "type"))
    THEN << Error("type", <<>>, "Invalid GeoJSON type: $1. Must be one of: $2",
                  <<Get(value, "type")>> \o [i \in DOMAIN validTypes |-> Str(validTypes[i])]) >>
    ELSE <<>>

\* The inner walk with the field path built from the last index alone.
RECURSIVE validateCoordinateNumbers_LastIndex(_, _, _)
validateCoordinateNumbers_LastIndex(coords, path, i) ==
    IF i > Len(coords) THEN <<>>
    ELSE LET coord == coords[i]
             here == IF IsArray(coord)
                     THEN validateCoordinateNumbers_LastIndex(coord.v, Append(path, i - 1), 1)
                     ELSE IF ~IsNumber(coord)
                     THEN << Error("coordinates", << i - 1 >>,
                                   "Coordinate values must be numbers", <<>>) >>
                     ELSE <<>>
         IN here \o validateCoordinateNumbers_LastIndex(coords, path, i + 1)

\* The inner walk of validateCoordinates: the errors of coords[i..], in the
\* order the loop pushes them; `path` is the index chain of `coords`.
RECURSIVE validateCoordinateNumbers(_, _, _)
validateCoordinateNumbers(coords, path, i) ==
    IF i > Len(coords) THEN <<>>
    ELSE LET coord == coords[i]
             here == IF IsArray(coord)
                     THEN validateCoordinateNumbers(coord.v, Append(path, i - 1), 1)
                     ELSE IF ~IsNumber(coord)
                     THEN << Error("coordinates", Append(path, i - 1),
                                   "Coordinate values must be numbers", <<>>) >>
                     ELSE <<>>
         IN here \o validateCoordinateNumbers(coords, path, i + 1)

validateCoordinates(coordinates) ==
    IF ~IsArray(coordinates)
    THEN << Error("coordinates", <<>>, "Coordinates must be an array", <<>>) >>
    ELSE (IF Len(coordinates.v) = 0
          THEN << Error("coordinates", <<>>, "Coordinates array cannot be empty", <<>>) >>
          ELSE <<>>)
         \o validateCoordinateNumbers(coordinates.v, <<>>, 1)

\* The per-family block with rings of three positions let through.
FamilyErrors_ShortRing(type, coords) ==
    IF type = Str("Point")
    THEN IF ~IsArray(coords) \/ Len(coords.v) < 2
         THEN << Error("coordinates", <<>>,
                "Point coordinates must be an array with at least 2 numbers [longitude, latitude]", <<>>) >>
         ELSE IF \E i \in DOMAIN coords.v : ~IsNumber(coords.v[i])
         THEN << Error("coordinates", <<>>, "Point coordinates must contain only numbers", <<>>) >>
         ELSE <<>>
    ELSE IF type = Str("LineString")
    THEN IF ~IsArray(coords) \/ Len(coords.v) < 2
         THEN << Error("coordinates", <<>>,
                "LineString coordinates must be an array with at least 2 coordinate pairs", <<>>) >>
         ELSE IF ~(\A i \in DOMAIN coords.v : IsArray(coords.v[i]) /\ Len(coords.v[i].v) >= 2)
         THEN << Error("coordinates", <<>>,
                "LineString coordinates must be an array of coordinate pairs [longitude, latitude]", <<>>) >>
         ELSE <<>>
    ELSE IF type = Str("Polygon")
    THEN IF ~IsArray(coords) \/ Len(coords.v) < 1
         THEN << Error("coordinates", <<>>,
                "Polygon coordinates must be an array with at least one ring", <<>>) >>
         ELSE IF ~(\A i \in DOMAIN coords.v : IsArray(coords.v[i]) /\ Len(coords.v[i].v) >= 3)
         THEN << Error("coordinates", <<>>,
                "Polygon coordinates must be an array of rings, each with at least 4 coordinate pairs", <<>>) >>
         ELSE <<>>
    ELSE <<>>

\* The per-family block of validateGeoJSON (lines 182-230): the error it
\* pushes for a document of the given type and coordinates, if any.
FamilyErrors(type, coords) ==
    IF type = Str("Point")
    THEN IF ~IsArray(coords) \/ Len(coords.v) < 2
         THEN << Error("coordinates", <<>>,
                "Point coordinates must be an array with at least 2 numbers [longitude, latitude]", <<>>) >>
         ELSE IF \E i \in DOMAIN coords.v : ~IsNumber(coords.v[i])
         THEN << Error("coordinates", <<>>, "Point coordinates must contain only numbers", <<>>) >>
         ELSE <<>>
    ELSE IF type = Str("LineString")
    THEN IF ~IsArray(coords) \/ Len(coords.v) < 2
         THEN << Error("coordinates", <<>>,
                "LineString coordinates must be an array with at least 2 coordinate pairs", <<>>) >>
         ELSE IF ~(\A i \in DOMAIN coords.v : IsArray(coords.v[i]) /\ Len(coords.v[i].v) >= 2)
         THEN << Error("coordinates", <<>>,
                "LineString coordinates must be an array of coordinate pairs [longitude, latitude]", <<>>) >>
         ELSE <<>>
    ELSE IF type = Str("Polygon")
    THEN IF ~IsArray(coords) \/ Len(coords.v) < 1
         THEN << Error("coordinates", <<>>,
                "Polygon coordinates must be an array with at least one ring", <<>>) >>
         ELSE IF ~(\A i \in DOMAIN coords.v : IsArray(coords.v[i]) /\ Len(coords.v[i].v) >= 4)
         THEN << Error("coordinates", <<>>,
                "Polygon coordinates must be an array of rings, each with at least 4 coordinate pairs", <<>>) >>
         ELSE <<>>
    ELSE <<>>

\* The outcome of a call: either the value returned or the exception thrown.
Return(x) == [threw |-> FALSE, ret |-> x]
Throw(e) == [threw |-> TRUE, ret |-> e]
TypeError ==
    [name |-> "TypeError", message |-> "Cannot read properties of $1", parts |-> <<>>, args |-> <<>>]

\* validateGeoJSON without the early return after the structure check.
validateGeoJSON_NoEarlyReturn(value, expectedType) ==
    LET structErrors == validateGeoJSONStructure(value)
        type == Get(value, "type")
        coords == Get(value, "coordinates")
        typeErrors ==
            IF ~Falsy(expectedType) /\ type # expectedType
            THEN << Error("type", <<>>,
                    "Expected GeoJSON type '$1', but got '$2'. Please provide GeoJSON with type '$1'.",
                    <<expectedType, type>>) >>
            ELSE <<>>
        coordErrors ==
            IF coords # Undef /\ type \notin {Str("Feature"), Str("FeatureCollection")}
            THEN validateCoordinates(coords)
            ELSE <<>>
        errors == structErrors \o typeErrors \o coordErrors
    IN IF IsNullish(value) THEN Throw(TypeError)
       ELSE IF coords # Undef /\ Len(errors) = 0
       THEN Return(errors \o FamilyErrors(type, coords))
       ELSE Return(errors)

\* validateGeoJSON(value, expectedType); expectedType is Undef when omitted.
\* For null and undefined the structure check returns no error and the
\* function goes on to read value.coordinates, which throws a TypeError.
validateGeoJSON(value, expectedType) ==
    LET structErrors == validateGeoJSONStructure(value)
        type == Get(value, "type")
        coords == Get(value, "coordinates")
        typeErrors ==
            IF ~Falsy(expectedType) /\ type # expectedType
            THEN << Error("type", <<>>,
                    "Expected GeoJSON type '$1', but got '$2'. Please provide GeoJSON with type '$1'.",
                    <<expectedType, type>>) >>
            ELSE <<>>
        coordErrors ==
            IF coords # Undef /\ type \notin {Str("Feature"), Str("FeatureCollection")}
            THEN validateCoordinates(coords)
            ELSE <<>>
        errors == typeErrors \o coordErrors
    IN IF Len(structErrors) > 0 THEN Return(structErrors)
       ELSE IF IsNullish(value) THEN Throw(TypeError)
       ELSE IF coords # Undef /\ Len(errors) = 0
       THEN Return(errors \o FamilyErrors(type, coords))
       ELSE Return(errors)

\* ------------------------------------------------- enumerated documents
\* validation.ts:222 : a Polygon ring needs at least this many positions.
MinRing == 4
\* Most positions in one enumerated position list (ring, line).
MaxPts == MinRing

Max2(a, b) == IF a >= b THEN a ELSE b

\* The longest array enumerated at level j, counted from the leaves:
\* ordinates of a position, positions of a line or ring, outer parts.
LevelMax(j) == IF j = 1 THEN MaxOrd ELSE IF j = 2 THEN MaxPts ELSE MaxParts

\* Array lengths, outermost first, of the uniform trees of depth d.
Shapes(d) ==
    { lens \in [1..d -> 0..Max2(MaxOrd, Max2(MaxPts, MaxParts))] :
        \A i \in 1..d : lens[i] <= LevelMax(d - i + 1) }

\* The nodes of the uniform tree of shape lens that lie on its first or last
\* branch at every level, as index chains (1-based), the root included.
RECURSIVE SpinePaths(_, _)
SpinePaths(lens, n) ==
    IF n = 0 THEN { <<>> }
    ELSE LET up == SpinePaths(lens, n - 1)
         IN up \cup { Append(p, i) : p \in { q \in up : Len(q) = n - 1 },
                                      i \in { j \in {1, lens[n]} : j <= lens[n] } }

\* The number at a leaf: distinct for the ordinates of a position and for
\* neighbouring positions.
NumAt(path) ==
    IF Len(path) = 0 THEN 7
    ELSE IF Len(path) = 1 THEN path[1] - 1
    ELSE 10 * (path[Len(path) - 1] - 1) + path[Len(path)] - 1

Defects == {"none", "string", "empty", "number", "pair"}

\* What replaces the node a defect sits on.
DefectValue(kind) ==
    IF kind = "string" THEN Str("x")
    ELSE IF kind = "empty" THEN Arr(<<>>)
    ELSE IF kind = "number" THEN Num(7)
    ELSE Arr(<< Str("x"), Null >>)

\* The uniform tree of shape lens below the node at `path`, with the node at
\* `at` replaced by DefectValue(kind) unless kind is "none".
RECURSIVE Tree(_, _, _, _)
Tree(lens, at, kind, path) ==
    IF kind # "none" /\ path = at THEN DefectValue(kind)
    ELSE IF Len(path) = Len(lens) THEN Num(NumAt(path))
    ELSE Arr([ i \in 1..lens[Len(path) + 1] |-> Tree(lens, at, kind, Append(path, i)) ])

\* The coordinates values enumerated up to nesting depth d.
CoordTrees(d) ==
    UNION { UNION { { Tree(lens, at, kind, <<>>) : at \in SpinePaths(lens, n), kind \in Defects }
                    : lens \in Shapes(n) } : n \in 1..d }

DocTypes ==
    { Undef, Str(""), Str("InvalidType") } \cup { Str(validTypes[i]) : i \in DOMAIN validTypes }

\* { type: t, coordinates: c }, a property left out when its value is Undef.
Doc(t, c) ==
    Obj([ p \in ((IF t = Undef THEN {} ELSE {"type"}) \cup
                 (IF c = Undef THEN {} ELSE {"coordinates"}))
          |-> IF p = "type" THEN t ELSE c ])

\* Values that are no GeoJSON object at all.
NonObjects == { Str("not an object"), Num(5), Arr(<< Num(1), Num(2) >>) }

ValidationInputs ==
    { Null, Undef } \cup NonObjects
    \cup { Doc(t, c) : t \in DocTypes, c \in {Undef} \cup CoordTrees(MaxDepth) }

ExpectedTypes == { Undef, Str("Point"), Str("LineString") }

\* ------------------------------------------------------------ JSON text
\* What JSON.stringify writes for a value: a property whose value is
\* undefined is left out of an object, an undefined array element is null.
RECURSIVE ToJSON(_)
ToJSON(x) ==
    IF x.k = "array"
    THEN Arr([ i \in DOMAIN x.v |-> IF x.v[i] = Undef THEN Null ELSE ToJSON(x.v[i]) ])
    ELSE IF x.k = "object"
    THEN Obj([ p \in { q \in DOMAIN x.v : x.v[q] # Undef } |-> ToJSON(x.v[p]) ])
    ELSE x

\* JSON.stringify(x) for a value that is not undefined: a string of JSON text.
JSONstringify(x) == Text(ToJSON(x))

\* JSON.parse(s): the value a JSON text holds; any other string (the empty
\* string included) is a SyntaxError.
JSONparseThrows(s) == s.k # "text"
JSONparse(s) == s.v

\* ------------------------------------------------------- type modifier
\* The PostGIS typmod layout: SRID above bit 8, subtype in bits 2-7, Z in
\* bit 1, M in bit 0 (1107460 is geometry(Point, 4326)).
getGISTypeModifier(subtype, hasZ, hasM, srid) ==
    srid * 256 + subtype * 4 + (IF hasZ THEN 2 ELSE 0) + (IF hasM THEN 1 ELSE 0)

getGISTypeDetails(modifier) ==
    [ subtype |-> (modifier % 256) \div 4,
      hasZ |-> ((modifier % 4) \div 2) = 1,
      hasM |-> (modifier % 2) = 1,
      srid |-> modifier \div 256 ]

\* ----------------------------------------- src/codec.ts createPostGISCodec
\* typeDetails is Null for an unconstrained column, else Obj(details).
Details(codec) == codec.extensions.typeDetails.v

expectedTypes ==
    [ i \in 1..7 |-> << "Point", "LineString", "Polygon", "MultiPoint",
                        "MultiLineString", "MultiPolygon", "GeometryCollection" >>[i] ]

subtypeNames ==
    << "point", "linestring", "polygon", "multipoint", "multilinestring",
       "multipolygon", "geometrycollection" >>

\* The messages of the errors toPg and fromPg throw.
NullInputMessage == "toPg should not be called with null/undefined"
InvalidGeoJSONMessage ==
    "Invalid GeoJSON: $parts. Please provide valid GeoJSON according to RFC 7946 specification."
TypeMismatchMessage ==
    "GeoJSON type mismatch: column expects '$1', but received '$2'. Please provide GeoJSON with type '$1'."
ParseFailedMessage == "Failed to parse geometry data from PostGIS: $1"

JsError(message, parts, args) ==
    [name |-> "Error", message |-> message, parts |-> parts, args |-> args]

\* The outcome of a codec call, with the functions it invoked on the way.
Returned(x, calls) == [threw |-> FALSE, ret |-> x, calls |-> calls]
Thrown(e, calls) == [threw |-> TRUE, ret |-> e, calls |-> calls]

\* `${err.field}: ${err.message}` of one validation error.
ErrorMessage(err) ==
    [field |-> err.field, path |-> err.path, message |-> err.message, args |-> err.args]

\* toPg with only the first validation error in its message.
toPg_FirstErrorOnly(codec, value) ==
    IF value = Null \/ value = Undef
    THEN Thrown(JsError(NullInputMessage, <<>>, <<>>), <<>>)
    ELSE
    LET validation == validateGeoJSON(value, Undef)
        validationErrors == validation.ret
        calls == << "validateGeoJSON" >>
        typeDetails == codec.extensions.typeDetails
        subtype == Details(codec).subtype
        expectedType == IF subtype \in DOMAIN expectedTypes
                        THEN Str(expectedTypes[subtype]) ELSE Undef
    IN IF validation.threw THEN Thrown(validation.ret, calls)
       ELSE IF Len(validationErrors) > 0
       THEN Thrown(JsError(InvalidGeoJSONMessage,
                           << ErrorMessage(validationErrors[1]) >>, <<>>), calls)
       ELSE IF ~Falsy(typeDetails) /\ subtype # 0
               /\ ~Falsy(expectedType) /\ Get(value, "type") # expectedType
       THEN Thrown(JsError(TypeMismatchMessage,
                           <<>>, << expectedType, Get(value, "type") >>), calls)
       ELSE Returned(JSONstringify(value), calls)

toPg(codec, value) ==
    IF value = Null \/ value = Undef
    THEN Thrown(JsError(NullInputMessage, <<>>, <<>>), <<>>)
    ELSE
    LET validation == validateGeoJSON(value, Undef)
        validationErrors == validation.ret
        calls == << "validateGeoJSON" >>
        typeDetails == codec.extensions.typeDetails
        subtype == Details(codec).subtype
        expectedType == IF subtype \in DOMAIN expectedTypes
                        THEN Str(expectedTypes[subtype]) ELSE Undef
    IN IF validation.threw THEN Thrown(validation.ret, calls)
       ELSE IF Len(validationErrors) > 0
       THEN Thrown(JsError(InvalidGeoJSONMessage,
                           [ i \in DOMAIN validationErrors |-> ErrorMessage(validationErrors[i]) ],
                           <<>>), calls)
       ELSE IF ~Falsy(typeDetails) /\ subtype # 0
               /\ ~Falsy(expectedType) /\ Get(value, "type") # expectedType
       THEN Thrown(JsError(TypeMismatchMessage,
                           <<>>, << expectedType, Get(value, "type") >>), calls)
       ELSE Returned(JSONstringify(value), calls)

\* castFromPg with the Point branch never taken.
castFromPg_NoAxes(codec) == << "geojson", "srid" >>

\* castFromPg(fragment): the keys of the json_build_object(...)::text the
\* column is selected through.
castFromPg(codec) ==
    IF ~Falsy(codec.extensions.typeDetails) /\ Details(codec).subtype = 1
    THEN << "geojson", "srid", "x", "y", "z" >>
    ELSE << "geojson", "srid" >>

\* srid ?? 0
OrZero(x) == IF IsNullish(x) THEN Num(0) ELSE x

\* fromPg with a failed parse turned into null.
fromPg_SwallowsFailure(value) ==
    IF value = Null \/ value = Undef \/ value = Str("")
    THEN Returned(Null, <<>>)
    ELSE
    LET parsed == JSONparse(value)
        geojson == Get(parsed, "geojson")
        srid == Get(parsed, "srid")
        keys == {"geojson", "srid"}
                \cup (IF HasKey(parsed, "x") THEN {"x"} ELSE {})
                \cup (IF HasKey(parsed, "y") THEN {"y"} ELSE {})
                \cup (IF HasKey(parsed, "z") /\ Get(parsed, "z") # Null THEN {"z"} ELSE {})
    IN IF JSONparseThrows(value) THEN Returned(Null, << "JSON.parse" >>)
       ELSE IF IsNullish(parsed) THEN Returned(Null, << "JSON.parse" >>)
       ELSE IF Falsy(geojson) THEN Returned(Null, << "JSON.parse" >>)
       ELSE Returned(Obj([ p \in keys |-> IF p = "geojson" THEN geojson
                                          ELSE IF p = "srid" THEN OrZero(srid)
                                          ELSE Get(parsed, p) ]),
                     << "JSON.parse" >>)

fromPg(value) ==
    IF value = Null \/ value = Undef \/ value = Str("")
    THEN Returned(Null, <<>>)
    ELSE
    LET parsed == JSONparse(value)
        geojson == Get(parsed, "geojson")
        srid == Get(parsed, "srid")
        keys == {"geojson", "srid"}
                \cup (IF HasKey(parsed, "x") THEN {"x"} ELSE {})
                \cup (IF HasKey(parsed, "y") THEN {"y"} ELSE {})
                \cup (IF HasKey(parsed, "z") /\ Get(parsed, "z") # Null THEN {"z"} ELSE {})
        failed == JsError(ParseFailedMessage, <<>>, <<>>)
    IN IF JSONparseThrows(value) THEN Thrown(failed, << "JSON.parse" >>)
       ELSE IF IsNullish(parsed) THEN Thrown(failed, << "JSON.parse" >>)
       ELSE IF Falsy(geojson) THEN Returned(Null, << "JSON.parse" >>)
       ELSE Returned(Obj([ p \in keys |-> IF p = "geojson" THEN geojson
                                          ELSE IF p = "srid" THEN OrZero(srid)
                                          ELSE Get(parsed, p) ]),
                     << "JSON.parse" >>)

createPostGISCodec(typeName, typeModifier) ==
    LET constrained == ~IsNullish(typeModifier) /\ typeModifier # Num(-1)
        details == getGISTypeDetails(typeModifier.v)
        typeDetails == IF constrained THEN Obj(details) ELSE Null
        dimSuffix == IF details.hasZ /\ details.hasM THEN << "_zm" >>
                     ELSE IF details.hasZ THEN << "_z" >>
                     ELSE IF details.hasM THEN << "_m" >> ELSE <<>>
        sridSuffix == IF details.srid # 0 THEN << "_", ToString(details.srid) >> ELSE <<>>
        codecName ==
            IF constrained /\ details.subtype # 0
            THEN << typeName, "_",
                    IF details.subtype \in DOMAIN subtypeNames
                    THEN subtypeNames[details.subtype] ELSE "unknown" >>
                 \o dimSuffix \o sridSuffix
            ELSE IF constrained THEN << typeName, "_mod_", ToString(typeModifier.v) >>
            ELSE << typeName >>
    IN [ name |-> codecName,
         sqlType |-> typeName,
         extensions |-> [ isPostGIS |-> TRUE, typeName |-> typeName,
                          typeDetails |-> typeDetails ] ]

\* --------------------------- src/mutationUtils.ts sqlValueWithPostGISCodec
\* An SQL fragment: the JSON text handed to ST_GeomFromGeoJSON (Null for the
\* literal NULL), the functions wrapped around it, innermost first, each
\* with its argument, and the type of the final cast.
Sql(json, wraps, cast) == [json |-> json, wraps |-> wraps, cast |-> cast]

\* Every codec createPostGISCodec builds has isPostGIS true and a typeName:
\* the fallback of mutationUtils.ts:31-35 and `|| codec.name` of line 48 are
\* never taken for it.

\* sqlValueWithPostGISCodec with the geometry branch never wrapping.
sqlValueWithPostGISCodec_NoSetSRID(value, codec) ==
    IF IsNullish(value)
    THEN Returned(Sql(Null, <<>>, codec.sqlType), <<>>)
    ELSE
    LET encoded == toPg(codec, value)
        calls == << "toPg" >> \o encoded.calls
    IN IF encoded.threw THEN Thrown(encoded.ret, calls)
       ELSE Returned(Sql(encoded.ret, <<>>, codec.extensions.typeName), calls)

\* sqlValueWithPostGISCodec without the null check.
sqlValueWithPostGISCodec_NoNullCheck(value, codec) ==
    LET encoded == toPg(codec, value)
        calls == << "toPg" >> \o encoded.calls
        jsonString == encoded.ret
        typeDetails == codec.extensions.typeDetails
        columnSRID == IF Falsy(typeDetails) THEN Undef ELSE Num(Details(codec).srid)
        typeName == codec.extensions.typeName
    IN IF encoded.threw THEN Thrown(encoded.ret, calls)
       ELSE IF typeName = "geography"
       THEN Returned(Sql(jsonString, <<>>, "geography"), calls)
       ELSE IF ~IsNullish(columnSRID) /\ columnSRID # Num(0)
       THEN Returned(Sql(jsonString, << [fn |-> "ST_SetSRID", arg |-> columnSRID.v] >>, "geometry"), calls)
       ELSE Returned(Sql(jsonString, <<>>, "geometry"), calls)

sqlValueWithPostGISCodec(value, codec) ==
    IF IsNullish(value)
    THEN Returned(Sql(Null, <<>>, codec.sqlType), <<>>)
    ELSE
    LET encoded == toPg(codec, value)
        calls == << "toPg" >> \o encoded.calls
        jsonString == encoded.ret
        typeDetails == codec.extensions.typeDetails
        columnSRID == IF Falsy(typeDetails) THEN Undef ELSE Num(Details(codec).srid)
        typeName == codec.extensions.typeName
    IN IF encoded.threw THEN Thrown(encoded.ret, calls)
       ELSE IF typeName = "geography"
       THEN Returned(Sql(jsonString, <<>>, "geography"), calls)
       ELSE IF ~IsNullish(columnSRID) /\ columnSRID # Num(0)
       THEN Returned(Sql(jsonString, << [fn |-> "ST_SetSRID", arg |-> columnSRID.v] >>, "geometry"), calls)
       ELSE Returned(Sql(jsonString, <<>>, "geometry"), calls)

\* ------------------------------------------ the spatial storage functions
\* A stored column value is Null (SQL NULL) or Geom(...): the base type it
\* was cast to, its family name, its coordinates and its SRID.
Geom(kind, family, coordinates, srid) ==
    [k |-> "geom", v |-> [kind |-> kind, family |-> family,
                          coordinates |-> coordinates, srid |-> srid]]

\* The SRID ST_GeomFromGeoJSON gives a geometry parsed from a document.
DefaultSRID == 4326

\* The nesting depth of the coordinates of each family that has coordinates.
NestingDepth(family) ==
    IF family = "Point" THEN 1
    ELSE IF family \in {"LineString", "MultiPoint"} THEN 2
    ELSE IF family \in {"Polygon", "MultiLineString"} THEN 3
    ELSE 4

\* A position: two to four numbers.
IsPosition(x) ==
    IsArray(x) /\ Len(x.v) >= 2 /\ Len(x.v) <= 4 /\ \A i \in DOMAIN x.v : IsNumber(x.v[i])

\* x is an array of positions nested d deep (d = 1: a position).
RECURSIVE IsCoordinates(_, _)
IsCoordinates(x, d) ==
    IF d = 1 THEN IsPosition(x)
    ELSE IsArray(x) /\ \A i \in DOMAIN x.v : IsCoordinates(x.v[i], d - 1)

\* The ordinates per position of well-formed coordinates (2 when there is
\* no position at all).
RECURSIVE CoordDim(_, _)
CoordDim(x, d) ==
    IF d = 1 THEN Len(x.v)
    ELSE IF Len(x.v) = 0 THEN 2 ELSE CoordDim(x.v[1], d - 1)

\* Whether ST_GeomFromGeoJSON can build a geometry from the text.
GeoJSONParses(json) ==
    LET doc == json.v
        type == Get(doc, "type")
    IN /\ json.k = "text"
       /\ type.k = "string"
       /\ type.v \in { expectedTypes[i] : i \in 1..6 }
       /\ IsCoordinates(Get(doc, "coordinates"), NestingDepth(type.v))

ST_GeomFromGeoJSON(json) ==
    Geom("geometry", Get(json.v, "type").v, Get(json.v, "coordinates"), DefaultSRID)

\* ST_SetSRID and the casts an SQL fragment wraps around its geometry.
RECURSIVE ApplyWraps(_, _, _)
ApplyWraps(g, wraps, i) ==
    IF i > Len(wraps) THEN g
    ELSE ApplyWraps(IF wraps[i].fn = "ST_SetSRID"
                    THEN [g EXCEPT !.v.srid = wraps[i].arg] ELSE g,
                    wraps, i + 1)

\* The value an SQL fragment of the write path evaluates to.
EvalSql(sql) ==
    IF sql.json = Null THEN Null
    ELSE [ ApplyWraps(ST_GeomFromGeoJSON(sql.json), sql.wraps, 1) EXCEPT !.v.kind = sql.cast ]

\* Whether the column the codec was built for takes the value: a typmod
\* constrains the family, the dimensions and a non-zero SRID (a geometry
\* parsed from GeoJSON has Z when it has a third ordinate, and never M).
ColumnAccepts(codec, g) ==
    \/ g = Null
    \/ Falsy(codec.extensions.typeDetails)
    \/ LET d == Details(codec)
           dim == CoordDim(g.v.coordinates, NestingDepth(g.v.family))
       IN /\ d.subtype = 0 \/ (d.subtype \in 1..7 /\ expectedTypes[d.subtype] = g.v.family)
          /\ d.srid = 0 \/ d.srid = g.v.srid
          /\ d.subtype = 0 \/ (~d.hasM /\ d.hasZ = (dim >= 3))

\* json_build_object(...)::text over the stored value, for the keys castFromPg
\* selects: ST_AsGeoJSON, ST_SRID, ST_X, ST_Y and the guarded ST_Z.
SelectKey(key, g) ==
    IF g = Null THEN Null
    ELSE IF key = "geojson"
    THEN Obj([ p \in {"type", "coordinates"} |->
               IF p = "type" THEN Str(g.v.family) ELSE g.v.coordinates ])
    ELSE IF key = "srid" THEN Num(g.v.srid)
    ELSE IF key = "x" THEN g.v.coordinates.v[1]
    ELSE IF key = "y" THEN g.v.coordinates.v[2]
    ELSE IF Len(g.v.coordinates.v) >= 3 THEN g.v.coordinates.v[3] ELSE Null

EvalSelect(keys, g) == Text(Obj([ p \in Range(keys) |-> SelectKey(p, g) ]))

\* ---------------------------------------------------------------- state
VARIABLES
    codec,    \* the codec createPostGISCodec built for the column
    row,      \* the value stored in the column
    written,  \* the input the stored value was written from
    last,     \* the call in progress: its operation, argument and outcome
    vcall,    \* the validator call made on its own
    gather,   \* the gather phase: the database, the detector's state, the codecs found
    build,    \* the schema build: the registered types and the types of the codecs
    field     \* the call of a field resolver: its parent and what it returned

vars == << codec, row, written, last, vcall, gather, build, field >>

Call(op, arg, out) == [op |-> op, arg |-> arg, out |-> out]
Idle == Call("idle", Undef, Returned(Undef, <<>>))
NoCall == [value |-> Undef, expectedType |-> Undef, structure |-> <<>>,
           coordinates |-> <<>>, plain |-> Return(<<>>), result |-> Return(<<>>)]

\* ------------------------------------------- src/inflection.ts gisType
\* A codec name is a sequence of string pieces (createPostGISCodec's
\* codecName); name.startsWith("geometry_") looks at its first two pieces.
StartsWith(name, base) ==
    Len(name) >= 2 /\ name[1] = base /\ name[2] \in {"_", "_mod_"}

\* SUBTYPE_STRING_BY_SUBTYPE, each hyphenated string as its words.
SUBTYPE_STRING_BY_SUBTYPE ==
    [ i \in 0..7 |->
        << << "geometry" >>, << "point" >>, << "line", "string" >>, << "polygon" >>,
           << "multi", "point" >>, << "multi", "line", "string" >>,
           << "multi", "polygon" >>, << "geometry", "collection" >> >>[i + 1] ]

\* The word with its first letter in upper case.
UpperFirst(w) ==
    CASE w = "geometry" -> "Geometry"
      [] w = "geography" -> "Geography"
      [] w = "point" -> "Point"
      [] w = "line" -> "Line"
      [] w = "string" -> "String"
      [] w = "polygon" -> "Polygon"
      [] w = "multi" -> "Multi"
      [] w = "collection" -> "Collection"
      [] w = "z" -> "Z"
      [] w = "m" -> "M"
      [] OTHER -> w

\* inflection.upperCamelCase of words joined by "-".
RECURSIVE upperCamelCase(_)
upperCamelCase(words) ==
    IF words = <<>> THEN ""
    ELSE UpperFirst(Head(words)) \o upperCamelCase(Tail(words))

\* gisType with the geography prefix left out.
gisType_NoGeographyPrefix(codecName, subtype, hasZ, hasM) ==
    LET subtypeString == SUBTYPE_STRING_BY_SUBTYPE[subtype]
    IN IF subtype = 0 THEN "Geometry"
       ELSE upperCamelCase(
              (IF Head(subtypeString) # "geometry" THEN << "geometry" >> ELSE <<>>)
              \o subtypeString
              \o (IF hasZ THEN << "z" >> ELSE <<>>)
              \o (IF hasM THEN << "m" >> ELSE <<>>))

gisType(codecName, subtype, hasZ, hasM) ==
    LET baseTypeName == IF StartsWith(codecName, "geography") THEN << "geography" >>
                        ELSE IF StartsWith(codecName, "geometry") THEN << "geometry" >>
                        ELSE codecName
        subtypeString == SUBTYPE_STRING_BY_SUBTYPE[subtype]
        prefix == IF baseTypeName = << "geography" >> THEN << "geography" >>
                  ELSE IF Head(subtypeString) # "geometry" THEN << "geometry" >>
                  ELSE <<>>
    IN IF subtype = 0
       THEN (IF baseTypeName = << "geography" >> THEN "Geography" ELSE "Geometry")
       ELSE upperCamelCase(prefix \o subtypeString
                           \o (IF hasZ THEN << "z" >> ELSE <<>>)
                           \o (IF hasM THEN << "m" >> ELSE <<>>))

\* ------------------------------------- src/PostgisRegisterTypesPlugin.ts
\* The caches of the init hook and what it has registered with the build:
\* interfaceNames and typeNames (the caches), and for every registered
\* interface and object type how often its name was registered; an object
\* type also keeps the interface lists it was registered with.
NoRegistry ==
    [ interfaceNames |-> {}, typeNames |-> <<>>, interfaces |-> <<>>, objects |-> <<>> ]

\* f with x mapped to y.
Put(f, x, y) == (x :> y) @@ f

\* build.registerInterfaceType(name, ...)
registerInterfaceType(reg, name) ==
    [ reg EXCEPT !.interfaces =
        Put(reg.interfaces, name, IF name \in DOMAIN reg.interfaces
                                  THEN reg.interfaces[name] + 1 ELSE 1) ]

\* build.registerObjectType(name, ..., { interfaces })
registerObjectType(reg, name, interfaces) ==
    [ reg EXCEPT !.objects =
        Put(reg.objects, name,
            IF name \in DOMAIN reg.objects
            THEN [ count |-> reg.objects[name].count + 1,
                   interfaces |-> reg.objects[name].interfaces \cup { interfaces } ]
            ELSE [ count |-> 1, interfaces |-> { interfaces } ]) ]

getGeometryInterface(reg) ==
    IF "GeometryInterface" \in reg.interfaceNames THEN reg
    ELSE [ registerInterfaceType(reg, "GeometryInterface")
             EXCEPT !.interfaceNames = reg.interfaceNames \cup { "GeometryInterface" } ]

\* The name getDimensionInterface gives the interface of a dimension pair.
DimensionInterfaceName(hasZ, hasM) ==
    "Geometry" \o (IF hasZ /\ hasM THEN "XYZM" ELSE IF hasZ THEN "XYZ"
                   ELSE IF hasM THEN "XYM" ELSE "XY") \o "Interface"

getDimensionInterface(reg, hasZ, hasM) ==
    LET interfaceName == DimensionInterfaceName(hasZ, hasM)
    IN IF interfaceName \in reg.interfaceNames THEN reg
       ELSE [ registerInterfaceType(reg, interfaceName)
                EXCEPT !.interfaceNames = reg.interfaceNames \cup { interfaceName } ]

\* `${codecName}-${subtype}-${hasZ}-${hasM}`
TypeKey(codecName, subtype, hasZ, hasM) ==
    [ codecName |-> codecName, subtype |-> subtype, hasZ |-> hasZ, hasM |-> hasM ]

\* getGeometryType with the cache never consulted.
getGeometryType_NoCache(reg, codecName, subtype, hasZ, hasM) ==
    LET typeName == gisType(codecName, subtype, hasZ, hasM)
        typeKey == TypeKey(codecName, subtype, hasZ, hasM)
        withInterfaces == getDimensionInterface(getGeometryInterface(reg), hasZ, hasM)
        registered == registerObjectType(withInterfaces, typeName,
                          << "GeometryInterface", DimensionInterfaceName(hasZ, hasM) >>)
    IN [ reg |-> [ registered EXCEPT !.typeNames = Put(registered.typeNames, typeKey, typeName) ],
         name |-> typeName ]

\* getGeometryType(codecName, subtype, hasZ, hasM): the registry after the
\* call and the type name returned.
getGeometryType(reg, codecName, subtype, hasZ, hasM) ==
    LET typeName == gisType(codecName, subtype, hasZ, hasM)
        typeKey == TypeKey(codecName, subtype, hasZ, hasM)
        withInterfaces == getDimensionInterface(getGeometryInterface(reg), hasZ, hasM)
        registered == registerObjectType(withInterfaces, typeName,
                          << "GeometryInterface", DimensionInterfaceName(hasZ, hasM) >>)
    IN IF typeKey \in DOMAIN reg.typeNames
       THEN [ reg |-> reg, name |-> reg.typeNames[typeKey] ]
       ELSE [ reg |-> [ registered EXCEPT !.typeNames = Put(registered.typeNames, typeKey, typeName) ],
              name |-> typeName ]

BaseTypeNames == << << "geometry" >>, << "geography" >> >>

\* The shapes the init hook pre-registers, in the order of its four loops.
PreRegistered ==
    [ i \in 1..56 |->
        [ codecName |-> BaseTypeNames[((i - 1) \div 28) + 1],
          subtype |-> (((i - 1) % 28) \div 4) + 1,
          hasZ |-> (((i - 1) % 4) \div 2) = 1,
          hasM |-> ((i - 1) % 2) = 1 ] ]

\* The first loop of the init hook, from its i-th iteration on.
RECURSIVE PreRegister(_, _)
PreRegister(reg, i) ==
    IF i > Len(PreRegistered) THEN reg
    ELSE LET shape == PreRegistered[i]
             got == getGeometryType(reg, shape.codecName, shape.subtype, shape.hasZ, shape.hasM)
         IN \* the test is always true: it makes the call happen before the next
            IF shape \in DOMAIN got.reg.typeNames THEN PreRegister(got.reg, i + 1) ELSE reg

\* The second loop of the init hook: the generic type of each base type.
RECURSIVE RegisterGeneric(_, _)
RegisterGeneric(reg, i) ==
    IF i > Len(BaseTypeNames) THEN reg
    ELSE LET codecName == BaseTypeNames[i]
             geometryTypeName == gisType(codecName, 0, FALSE, FALSE)
             typeKey == TypeKey(codecName, 0, FALSE, FALSE)
             registered == registerObjectType(getGeometryInterface(reg), geometryTypeName,
                                              << "GeometryInterface" >>)
         IN RegisterGeneric(
              IF typeKey \in DOMAIN reg.typeNames THEN reg
              ELSE [ registered EXCEPT !.typeNames = Put(registered.typeNames, typeKey, geometryTypeName) ],
              i + 1)

\* The registry the init hook leaves behind.
RegisterTypesInit(reg) == RegisterGeneric(PreRegister(reg, 1), 1)

\* The schema build: its phase, the registry, whether the module-level
\* getGeometryTypeImpl is set, the calls of getPostGISGeometryType made
\* through the build, and the GraphQL types set for
\* the codecs.
NoBuild ==
    [ phase |-> "idle", reg |-> NoRegistry, impl |-> FALSE, resolved |-> <<>>,
      pgCodecs |-> {}, codecTypes |-> <<>> ]

\* ------------------------------------------------ the gather phase
\* A namespace is its id; its nspname is one name per id.
Nspname(ns) == << "public", "app" >>[ns]

PgType(typname, typnamespace) == [ typname |-> typname, typnamespace |-> typnamespace ]
PgExtension(extname, extnamespace) == [ extname |-> extname, extnamespace |-> extnamespace ]
PgAttribute(type, atttypmod) == [ type |-> type, atttypmod |-> atttypmod ]

\* null, for a type and for an extension.
NoType == PgType("", 0)
NoExtension == PgExtension("", 0)

\* initialState of PostgisExtensionPlugin.
InitialState ==
    [ postgisExtension |-> NoExtension, geometryType |-> NoType,
      geographyType |-> NoType, postgisDetected |-> FALSE ]

\* The helper isPostGISAvailable.
isPostGISAvailable(state) == state.postgisDetected

\* pgIntrospection_extension setting the flag for any extension.
pgIntrospection_extension_AnyExtension(state, entity) ==
    [ state EXCEPT !.postgisExtension = entity, !.postgisDetected = TRUE ]

\* The hook pgIntrospection_extension: the state it leaves.
pgIntrospection_extension(state, entity) ==
    IF entity.extname = "postgis"
    THEN [ state EXCEPT !.postgisExtension = entity, !.postgisDetected = TRUE ]
    ELSE state

\* pgIntrospection.getExtensionByName(serviceName, "postgis") over the
\* extensions of the database.
getExtensionByName(extensions, name) ==
    IF \E e \in extensions : e.extname = name
    THEN CHOOSE e \in extensions : e.extname = name
    ELSE NoExtension

\* pgIntrospection_type taking the extension from what the extension hook
\* recorded.
pgIntrospection_type_FromState(state, extensions, pgType) ==
    LET postgisExtension == state.postgisExtension
        namespaceMatches == pgType.typnamespace = postgisExtension.extnamespace
    IN IF pgType.typname # "geometry" /\ pgType.typname # "geography" THEN state
       ELSE IF postgisExtension = NoExtension THEN state
       ELSE IF ~namespaceMatches THEN state
       ELSE IF pgType.typname = "geometry" THEN [ state EXCEPT !.geometryType = pgType ]
       ELSE [ state EXCEPT !.geographyType = pgType ]

\* pgIntrospection_type with the namespaces never compared.
pgIntrospection_type_AnyNamespace(state, extensions, pgType) ==
    LET postgisExtension == getExtensionByName(extensions, "postgis")
    IN IF pgType.typname # "geometry" /\ pgType.typname # "geography" THEN state
       ELSE IF postgisExtension = NoExtension THEN state
       ELSE IF pgType.typname = "geometry" THEN [ state EXCEPT !.geometryType = pgType ]
       ELSE [ state EXCEPT !.geographyType = pgType ]

\* The hook pgIntrospection_type: the state it leaves.
pgIntrospection_type(state, extensions, pgType) ==
    LET postgisExtension == getExtensionByName(extensions, "postgis")
        namespaceMatches == pgType.typnamespace = postgisExtension.extnamespace
    IN IF pgType.typname # "geometry" /\ pgType.typname # "geography" THEN state
       ELSE IF postgisExtension = NoExtension THEN state
       ELSE IF ~namespaceMatches THEN state
       ELSE IF pgType.typname = "geometry" THEN [ state EXCEPT !.geometryType = pgType ]
       ELSE [ state EXCEPT !.geographyType = pgType ]

\* The two versions of PostgisCodecPlugin: src/PostgisCodecPlugin.ts, and
\* part_006 with its cache of codecs and its pgCodecs_attribute hook.
CodecPlugins == { "PostgisCodecPlugin.ts", "part_006" }

\* event.pgCodec left unset.
NoCodec ==
    [ name |-> <<>>, sqlType |-> "",
      extensions |-> [ isPostGIS |-> FALSE, typeName |-> "", typeDetails |-> Null ] ]

\* typeof typeModifier === "string" ? ... : typeModifier ?? null, for the
\* numbers and nulls introspection gives.
ModifierNumber(typeModifier) == IF IsNullish(typeModifier) THEN Null ELSE typeModifier

\* `${typname}_${modifierNumber ?? -1}`
ModifierKey(typname, modifierNumber) ==
    << typname, IF IsNullish(modifierNumber) THEN -1 ELSE modifierNumber.v >>

\* Whether pgCodecs_findPgCodec takes pgType for the recorded base type.
IsBaseType(plugin, pgType, baseType) ==
    /\ pgType.typname = baseType.typname
    /\ \/ Nspname(pgType.typnamespace) = Nspname(baseType.typnamespace)
       \/ plugin = "part_006" /\ pgType.typnamespace = baseType.typnamespace

\* The hook pgCodecs_findPgCodec: event.pgCodec after it, and the cache of
\* part_006 after it.
pgCodecs_findPgCodec(plugin, state, codecByModifier, pgType, typeModifier) ==
    LET modifierNumber == ModifierNumber(typeModifier)
        made == createPostGISCodec(pgType.typname, modifierNumber)
        unset == [ pgCodec |-> NoCodec, codecByModifier |-> codecByModifier ]
    IN IF ~isPostGISAvailable(state) THEN unset
       ELSE IF state.geometryType = NoType \/ state.geographyType = NoType THEN unset
       ELSE IF \/ pgType.typname = "geometry" /\ IsBaseType(plugin, pgType, state.geometryType)
               \/ pgType.typname = "geography" /\ IsBaseType(plugin, pgType, state.geographyType)
       THEN [ pgCodec |-> made,
              codecByModifier |->
                IF plugin = "part_006"
                THEN Put(codecByModifier, ModifierKey(pgType.typname, modifierNumber), made)
                ELSE codecByModifier ]
       ELSE unset

\* The codec names and the flag pgCodecs_attribute and the init hook of
\* PostgisTypesPlugin take for a PostGIS codec.
IsPostGISCodec(c) ==
    \/ c.name = << "geometry" >>
    \/ c.name = << "geography" >>
    \/ StartsWith(c.name, "geometry")
    \/ StartsWith(c.name, "geography")
    \/ c.extensions.isPostGIS

\* The hook pgCodecs_attribute of part_006: attribute.codec after it, the
\* cache after it, and where the codec object comes from: the one the
\* attribute had, the one the cache held, or one created now.
pgCodecs_attribute(state, codecByModifier, attributeCodec, pgAttribute) ==
    LET modifierNumber == ModifierNumber(pgAttribute.atttypmod)
        pgType == pgAttribute.type
        isGeometry == /\ pgType.typname = "geometry"
                      /\ pgType.typnamespace = state.geometryType.typnamespace
        isGeography == /\ pgType.typname = "geography"
                       /\ pgType.typnamespace = state.geographyType.typnamespace
        baseTypeName == IF isGeometry THEN "geometry" ELSE "geography"
        key == ModifierKey(baseTypeName, modifierNumber)
        correctCodec == IF key \in DOMAIN codecByModifier THEN codecByModifier[key]
                        ELSE createPostGISCodec(baseTypeName, modifierNumber)
        kept == [ codec |-> attributeCodec, codecByModifier |-> codecByModifier,
                  source |-> "kept" ]
    IN IF attributeCodec = NoCodec \/ ~IsPostGISCodec(attributeCodec) THEN kept
       ELSE IF state.geometryType = NoType \/ state.geographyType = NoType THEN kept
       ELSE IF ~isGeometry /\ ~isGeography THEN kept
       ELSE IF modifierNumber = Null \/ modifierNumber = Num(-1) THEN kept
       ELSE [ codec |-> correctCodec,
              codecByModifier |-> Put(codecByModifier, key, correctCodec),
              source |-> IF key \in DOMAIN codecByModifier THEN "cache" ELSE "created" ]

\* The codec the host gives a column whose type no plugin made a codec for,
\* when it gives one: a codec named after the type.
HostCodec(pgType) ==
    [ name |-> << pgType.typname >>, sqlType |-> pgType.typname,
      extensions |-> [ isPostGIS |-> FALSE, typeName |-> pgType.typname,
                       typeDetails |-> Null ] ]

\* The gather phase: the version of PostgisCodecPlugin loaded, the database
\* introspected, the state of PostgisExtensionPlugin, the cache of part_006,
\* the columns that have a codec decision, whether a hook threw and how
\* many warnings the hooks emitted.
NoDatabase == [ extensions |-> {}, types |-> {}, attributes |-> {} ]
NoGather ==
    [ phase |-> "idle", plugin |-> "PostgisCodecPlugin.ts", db |-> NoDatabase,
      state |-> InitialState, codecByModifier |-> <<>>, columns |-> {},
      threw |-> FALSE, warnings |-> 0 ]

\* --------------------------------- PostgisTypesPlugin, the init hook
\* The output type the init hook sets for a PostGIS codec, with the base
\* type always taken for geometry.
outputType_GeometryOnly(reg, c) ==
    LET typeDetails == c.extensions.typeDetails
    IN IF ~Falsy(typeDetails) /\ typeDetails.v.subtype # 0
       THEN getGeometryType(reg, << "geometry" >>, typeDetails.v.subtype,
                            typeDetails.v.hasZ, typeDetails.v.hasM)
       ELSE getGeometryType(reg, << "geometry" >>, 0, FALSE, FALSE)

\* The call of getPostGISGeometryType the init hook makes for the output
\* type of a PostGIS codec: the registry after it and the name returned.
outputType(reg, c) ==
    LET typeDetails == c.extensions.typeDetails
    IN IF ~Falsy(typeDetails) /\ typeDetails.v.subtype # 0
       THEN getGeometryType(reg,
                            IF StartsWith(c.name, "geography") THEN << "geography" >>
                            ELSE << "geometry" >>,
                            typeDetails.v.subtype, typeDetails.v.hasZ, typeDetails.v.hasM)
       ELSE getGeometryType(reg,
                            IF StartsWith(c.name, "geography") THEN << "geography" >>
                            ELSE IF StartsWith(c.name, "geometry") THEN << "geometry" >>
                            ELSE c.name,
                            0, FALSE, FALSE)

\* The loop of the init hook over the codecs: the registry and the GraphQL
\* types of the codecs after it.
RECURSIVE MapCodecs(_, _, _)
MapCodecs(reg, codecTypes, codecs) ==
    IF codecs = {} THEN [ reg |-> reg, codecTypes |-> codecTypes ]
    ELSE LET c == CHOOSE x \in codecs : TRUE
             before == IF c \in DOMAIN codecTypes THEN codecTypes[c]
                       ELSE [ input |-> "", output |-> "" ]
             got == outputType(reg, c)
             input == IF before.input = "" THEN "GeoJSON" ELSE before.input
             output == IF before.output # "" THEN before.output
                       ELSE IF got.name # "" THEN got.name ELSE "GeoJSON"
         IN IF ~IsPostGISCodec(c) THEN MapCodecs(reg, codecTypes, codecs \ {c})
            ELSE MapCodecs(IF before.output = "" THEN got.reg ELSE reg,
                           Put(codecTypes, c, [ input |-> input, output |-> output ]),
                           codecs \ {c})

\* ------------------------- src/codec.ts PostgisPolygonFieldsPlugin
\* parent.srid || 0
SridOrZero(parent) == IF Falsy(Get(parent, "srid")) THEN Num(0) ELSE Get(parent, "srid")

\* The sub-result a ring is wrapped into.
LineStringOf(ring, srid) ==
    Obj([ geojson |-> Obj([ type |-> Str("LineString"), coordinates |-> ring ]),
          srid |-> srid ])

\* The resolver of the field exterior.
exterior(parent) ==
    LET geojson == Get(parent, "geojson")
        coordinates == Get(geojson, "coordinates")
    IN IF Falsy(parent) \/ Falsy(geojson) THEN Null
       ELSE IF /\ TypeofObject(geojson)
               /\ Get(geojson, "type") = Str("Polygon")
               /\ IsArray(coordinates)
               /\ Len(coordinates.v) > 0
       THEN LineStringOf(coordinates.v[1], SridOrZero(parent))
       ELSE Null

\* The resolver of interiors with the exterior ring not left out.
interiors_FromFirstRing(parent) ==
    LET geojson == Get(parent, "geojson")
        coordinates == Get(geojson, "coordinates")
    IN IF Falsy(parent) \/ Falsy(geojson) THEN Null
       ELSE IF /\ TypeofObject(geojson)
               /\ Get(geojson, "type") = Str("Polygon")
               /\ IsArray(coordinates)
               /\ Len(coordinates.v) > 1
       THEN Arr([ i \in 1..Len(coordinates.v) |->
                    LineStringOf(coordinates.v[i], SridOrZero(parent)) ])
       ELSE Arr(<<>>)

\* The resolver of the field interiors.
interiors(parent) ==
    LET geojson == Get(parent, "geojson")
        coordinates == Get(geojson, "coordinates")
    IN IF Falsy(parent) \/ Falsy(geojson) THEN Null
       ELSE IF /\ TypeofObject(geojson)
               /\ Get(geojson, "type") = Str("Polygon")
               /\ IsArray(coordinates)
               /\ Len(coordinates.v) > 1
       THEN Arr([ i \in 1..(Len(coordinates.v) - 1) |->
                    LineStringOf(coordinates.v[i + 1], SridOrZero(parent)) ])
       ELSE Arr(<<>>)

\* ------------ src/PostgisLineStringFieldsPlugin.ts and the other fields
\* The Point sub-result of one coordinate entry: const [x, y, z] = coord.
PointOf(coord, srid) ==
    LET At(i) == IF i <= Len(coord.v) THEN coord.v[i] ELSE Undef
        keys == { "geojson", "srid", "x", "y" } \cup (IF At(3) # Undef THEN { "z" } ELSE {})
    IN Obj([ p \in keys |->
               CASE p = "geojson" -> Obj([ type |-> Str("Point"), coordinates |-> coord ])
                 [] p = "srid" -> srid
                 [] p = "x" -> At(1)
                 [] p = "y" -> At(2)
                 [] OTHER -> At(3) ])

\* points with the coordinate entries taken in reverse.
points_Reversed(parent, typeName) ==
    LET geojson == Get(parent, "geojson")
        coordinates == Get(geojson, "coordinates")
    IN IF Falsy(parent) \/ Falsy(geojson) THEN Return(Null)
       ELSE IF /\ TypeofObject(geojson)
               /\ Get(geojson, "type") = Str(typeName)
               /\ IsArray(coordinates)
       THEN IF \E i \in DOMAIN coordinates.v : ~IsArray(coordinates.v[i])
            THEN Throw(TypeError)
            ELSE Return(Arr([ i \in DOMAIN coordinates.v |->
                   PointOf(coordinates.v[Len(coordinates.v) + 1 - i], SridOrZero(parent)) ]))
       ELSE Return(Null)

\* The resolver of the field points of the LineString type and of the
\* MultiPoint type, typeName being "LineString" or "MultiPoint".  Taking a
\* coordinate entry apart throws a TypeError when the entry is not iterable;
\* the entries of the payloads here are arrays and numbers.
points(parent, typeName) ==
    LET geojson == Get(parent, "geojson")
        coordinates == Get(geojson, "coordinates")
    IN IF Falsy(parent) \/ Falsy(geojson) THEN Return(Null)
       ELSE IF /\ TypeofObject(geojson)
               /\ Get(geojson, "type") = Str(typeName)
               /\ IsArray(coordinates)
       THEN IF \E i \in DOMAIN coordinates.v : ~IsArray(coordinates.v[i])
            THEN Throw(TypeError)
            ELSE Return(Arr([ i \in DOMAIN coordinates.v |->
                                PointOf(coordinates.v[i], SridOrZero(parent)) ]))
       ELSE Return(Null)

\* The resolver of the field lineStrings of the MultiLineString type.
lineStrings(parent) ==
    LET geojson == Get(parent, "geojson")
        coordinates == Get(geojson, "coordinates")
    IN IF Falsy(parent) \/ Falsy(geojson) THEN Return(Null)
       ELSE IF /\ TypeofObject(geojson)
               /\ Get(geojson, "type") = Str("MultiLineString")
               /\ IsArray(coordinates)
       THEN Return(Arr([ i \in DOMAIN coordinates.v |->
                           LineStringOf(coordinates.v[i], SridOrZero(parent)) ]))
       ELSE Return(Null)

\* The resolver of the field geometries of the GeometryCollection type.
geometries(parent) ==
    LET geojson == Get(parent, "geojson")
        members == Get(geojson, "geometries")
    IN IF Falsy(parent) \/ Falsy(geojson) THEN Return(Arr(<<>>))
       ELSE IF /\ TypeofObject(geojson)
               /\ Get(geojson, "type") = Str("GeometryCollection")
               /\ IsArray(members)
       THEN Return(Arr([ i \in DOMAIN members.v |->
                           Obj([ geojson |-> members.v[i], srid |-> SridOrZero(parent) ]) ]))
       ELSE Return(Arr(<<>>))

\* The resolver of the field <attribute>_polygons of a table type, the one
\* field PostgisMultiPolygonFieldsPlugin adds: it reads type and coordinates
\* of its parent itself.
attribute_polygons(parent) ==
    IF Falsy(parent) THEN Return(Null)
    ELSE IF /\ TypeofObject(parent)
            /\ Get(parent, "type") = Str("MultiPolygon")
            /\ IsArray(Get(parent, "coordinates"))
    THEN Return(Get(parent, "coordinates"))
    ELSE Return(Null)

\* The names of the fields the GraphQLObjectType_fields hooks add to the
\* geometry type of a family (scope isPostGISType, isGeometryType, subtype).
GeometryTypeFields(subtype) ==
    CASE subtype = 2 -> { "points" }
      [] subtype = 3 -> { "exterior", "interiors" }
      [] subtype = 4 -> { "points" }
      [] subtype = 5 -> { "lineStrings" }
      [] subtype = 7 -> { "geometries" }
      [] OTHER -> {}

\* ------------------------------ src/mutationUtils.ts PostgisPointFieldsPlugin
\* inflection.gisXFieldName, gisYFieldName and gisZFieldName: codec.name is
\* compared with the string "geography".
gisXFieldName(c) == IF c.name = << "geography" >> THEN "longitude" ELSE "x"

gisYFieldName(c) == IF c.name = << "geography" >> THEN "latitude" ELSE "y"

gisZFieldName(c) == IF c.name = << "geography" >> THEN "height" ELSE "z"

\* The names of the fields the GraphQLObjectType_fields hook of
\* PostgisPointFieldsPlugin adds to a table type for an attribute with the
\* field name fieldName and the codec attributeCodec, in the order it adds
\* them; none for a codec without typeDetails or of another family.
PointFields(fieldName, attributeCodec) ==
    LET typeDetails == attributeCodec.extensions.typeDetails
    IN IF ~attributeCodec.extensions.isPostGIS THEN <<>>
       ELSE IF Falsy(typeDetails) THEN <<>>
       ELSE IF typeDetails.v.subtype # 1 THEN <<>>
       ELSE << Str(fieldName \o "_" \o gisXFieldName(attributeCodec)),
               Str(fieldName \o "_" \o gisYFieldName(attributeCodec)) >>
            \o (IF typeDetails.v.hasZ
                THEN << Str(fieldName \o "_" \o gisZFieldName(attributeCodec)) >>
                ELSE <<>>)
            \o << Str(fieldName \o "_srid") >>

\* No field resolver has been called.  A resolved field has its name, the
\* family of the geometry type it is a field of (0 for a field of a table
\* type), its parent and what its resolver returned or threw.
NoField ==
    [ name |-> "", subtype |-> 0, parent |-> Undef, result |-> Undef, threw |-> FALSE ]

\* ------------------------------------------- inputs of the codec calls
TypeNames == {"geometry", "geography"}

TypeModifiers ==
    { Null, Num(-1) }
    \cup { Num(getGISTypeModifier(t, FALSE, FALSE, s)) : t \in 0..7, s \in {0, 3857} }
    \cup { Num(getGISTypeModifier(1, z, m, 4326)) : z \in BOOLEAN, m \in BOOLEAN }

Ordinates == { -100, 0, 30 }

CodecCoords ==
    { Undef } \cup CoordTrees(1)
    \cup { Arr(<< Num(x), Num(y) >>) : x \in Ordinates, y \in Ordinates }
    \cup { Tree(<< 2, 2 >>, <<>>, "none", <<>>),
           Tree(<< 2, 2 >>, << 2, 1 >>, "string", <<>>),
           Tree(<< 1, MinRing, 2 >>, <<>>, "none", <<>>),
           Tree(<< 1, MinRing - 1, 2 >>, <<>>, "none", <<>>) }

CodecDocTypes ==
    { Undef, Str("InvalidType"), Str("Point"), Str("LineString"), Str("Polygon"),
      Str("Feature") }

CodecInputs ==
    { Null, Undef } \cup NonObjects
    \cup { Doc(t, c) : t \in CodecDocTypes, c \in CodecCoords }

\* Payloads handed to fromPg that no SELECT of this model produces.
RawPayloads ==
    { Null, Undef, Str(""), Str("not json"), Text(Null), Text(Num(0)),
      Text(Str("POINT(0 1)")), Text(Arr(<< Num(0), Num(1) >>)), Text(Obj(<<>>)),
      Text(Obj([srid |-> Num(4326)])),
      Text(Obj([geojson |-> Null, srid |-> Null])),
      Text(Obj([geojson |-> Str("not a document"), srid |-> Num(0)])),
      Text(Obj([geojson |-> Doc(Str("Point"), Arr(<< Num(0), Num(1) >>))])),
      Text(Obj([geojson |-> Doc(Str("Point"), Arr(<< Num(0), Num(1) >>)),
                srid |-> Num(4326), x |-> Num(0), y |-> Num(1), z |-> Null])) }

\* ------------------------------------------------------------- actions
Init ==
    /\ codec \in { createPostGISCodec(tn, m) : tn \in TypeNames, m \in TypeModifiers }
    /\ row = Null
    /\ written = Undef
    /\ last = Idle
    /\ vcall = NoCall
    /\ gather = NoGather
    /\ build = NoBuild
    /\ field = NoField

\* codec.toPg(value), called directly.
ToPg ==
    /\ last.op = "idle"
    /\ \E value \in CodecInputs :
         last' = Call("toPg", value, toPg(codec, value))
    /\ UNCHANGED << codec, row, written, vcall, gather, build, field >>

\* A mutation hands the input of the column to sqlValueWithCodec, which
\* PostgisMutationPlugin routes to sqlValueWithPostGISCodec for this codec.
SqlValueWithCodec ==
    /\ last.op = "idle"
    /\ \E value \in CodecInputs :
         last' = Call("sqlValueWithCodec", value, sqlValueWithPostGISCodec(value, codec))
    /\ UNCHANGED << codec, row, written, vcall, gather, build, field >>

\* The database evaluates the fragment and stores the value, or rejects the
\* statement.
Execute ==
    /\ last.op = "sqlValueWithCodec"
    /\ ~last.out.threw
    /\ LET sql == last.out.ret
           ok == (sql.json = Null \/ GeoJSONParses(sql.json))
                 /\ ColumnAccepts(codec, EvalSql(sql))
       IN IF ok
          THEN /\ row' = EvalSql(sql)
               /\ written' = last.arg
               /\ last' = Call("execute", last.arg, Returned(EvalSql(sql), <<>>))
          ELSE /\ last' = Call("execute", last.arg,
                               Thrown(JsError("database error", <<>>, <<>>), <<>>))
               /\ UNCHANGED << row, written >>
    /\ UNCHANGED << codec, vcall, gather, build, field >>

\* A query selects the column through castFromPg.
Select ==
    /\ last.op = "idle"
    /\ last' = Call("select", castFromPg(codec),
                    Returned(EvalSelect(castFromPg(codec), row), <<>>))
    /\ UNCHANGED << codec, row, written, vcall, gather, build, field >>

\* fromPg decodes the payload the query returned.
FromPg ==
    /\ last.op = "select"
    /\ last' = Call("fromPg", last.out.ret, fromPg(last.out.ret))
    /\ UNCHANGED << codec, row, written, vcall, gather, build, field >>

\* fromPg called on a payload of any other origin.
FromPgRaw ==
    /\ last.op = "idle"
    /\ \E value \in RawPayloads : last' = Call("fromPgRaw", value, fromPg(value))
    /\ UNCHANGED << codec, row, written, vcall, gather, build, field >>

\* The request ends: its result or its error goes back to the caller.
Finish ==
    /\ last.op \notin {"idle", "select"}
    /\ ~(last.op = "sqlValueWithCodec" /\ ~last.out.threw)
    /\ last' = Idle
    /\ UNCHANGED << codec, row, written, vcall, gather, build, field >>

Next == ToPg \/ SqlValueWithCodec \/ Execute \/ Select \/ FromPg \/ FromPgRaw \/ Finish

Spec == Init /\ [][Next]_vars

\* ------------------------------------------ the validator called on its own
InitValidation ==
    /\ codec = createPostGISCodec("geometry", Null)
    /\ row = Null
    /\ written = Undef
    /\ last = Idle
    /\ vcall = NoCall
    /\ gather = NoGather
    /\ build = NoBuild
    /\ field = NoField

\* One value is put through the three exported functions: the structure
\* check, the coordinate check of its coordinates, and validateGeoJSON with
\* and without an expected type.
Validate ==
    /\ vcall = NoCall
    /\ \E value \in ValidationInputs, expectedType \in ExpectedTypes :
         vcall' = [ value |-> value,
                    expectedType |-> expectedType,
                    structure |-> validateGeoJSONStructure(value),
                    coordinates |-> validateCoordinates(Get(value, "coordinates")),
                    plain |-> validateGeoJSON(value, Undef),
                    result |-> validateGeoJSON(value, expectedType) ]
    /\ UNCHANGED << codec, row, written, last, gather, build, field >>

NextValidation == Validate

ValidationSpec == InitValidation /\ [][NextValidation]_vars

\* ------------------------------------------ the type-resolution registry
\* Every shape getPostGISGeometryType can be asked for.
TypeShapes ==
    { TypeKey(BaseTypeNames[b], t, z, m) : b \in 1..2, t \in 0..7, z \in BOOLEAN, m \in BOOLEAN }

\* The families the calls made through the build are drawn from: unconstrained,
\* Point, Polygon and GeometryCollection.
ResolveFamilies == { 0, 1, 3, 7 }

\* The arguments getPostGISGeometryType is called with.
ResolveArgs == { a \in TypeShapes : a.subtype \in ResolveFamilies }

\* How many calls of getPostGISGeometryType the build has seen.
RECURSIVE CountCalls(_, _)
CountCalls(resolved, keys) ==
    IF keys = {} THEN 0
    ELSE LET k == CHOOSE x \in keys : TRUE
         IN resolved[k].count + CountCalls(resolved, keys \ {k})

\* The build hook has run: build.getPostGISGeometryType exists, and the init
\* hooks have not run yet.
InitRegistry ==
    /\ codec = createPostGISCodec("geometry", Null)
    /\ row = Null
    /\ written = Undef
    /\ last = Idle
    /\ vcall = NoCall
    /\ gather = NoGather
    /\ build = [ NoBuild EXCEPT !.phase = "build" ]
    /\ field = NoField

\* The init hook of PostgisRegisterTypesPlugin.
RegisterTypes_init ==
    /\ build.phase = "build"
    /\ build' = [ build EXCEPT !.phase = "init",
                               !.reg = RegisterTypesInit(NoRegistry),
                               !.impl = TRUE ]
    /\ UNCHANGED << codec, row, written, last, vcall, gather, field >>

\* build.getPostGISGeometryType(codecName, subtype, hasZ, hasM), called by
\* any plugin of the build: it throws until the init hook has set
\* getGeometryTypeImpl, and calls getGeometryType after that.
GetPostGISGeometryType ==
    /\ build.phase \in {"build", "init"}
    /\ CountCalls(build.resolved, DOMAIN build.resolved) < MaxResolves
    /\ \E args \in ResolveArgs :
         LET before == IF args \in DOMAIN build.resolved THEN build.resolved[args]
                       ELSE [ count |-> 0, names |-> {}, threw |-> FALSE ]
             got == getGeometryType(build.reg, args.codecName, args.subtype, args.hasZ, args.hasM)
         IN IF ~build.impl
            THEN build' = [ build EXCEPT
                   !.resolved = Put(build.resolved, args,
                                    [ before EXCEPT !.count = before.count + 1, !.threw = TRUE ]) ]
            ELSE build' = [ build EXCEPT
                   !.reg = got.reg,
                   !.resolved = Put(build.resolved, args,
                                    [ before EXCEPT !.count = before.count + 1,
                                                    !.names = before.names \cup { got.name } ]) ]
    /\ UNCHANGED << codec, row, written, last, vcall, gather, field >>

NextRegistry == RegisterTypes_init \/ GetPostGISGeometryType

RegistrySpec == InitRegistry /\ [][NextRegistry]_vars

\* --------------------------------------- gathering and the schema build
\* The shapes of the columns of the databases below.
Point4326 == Num(getGISTypeModifier(1, FALSE, FALSE, 4326))
Point3857 == Num(getGISTypeModifier(1, FALSE, FALSE, 3857))
PolygonZ4326 == Num(getGISTypeModifier(3, TRUE, FALSE, 4326))
Any4326 == Num(getGISTypeModifier(0, FALSE, FALSE, 4326))
CollectionZM == Num(getGISTypeModifier(7, TRUE, TRUE, 0))

\* The databases introspected: one without postgis that has types named
\* geometry and geography of its own, one with postgis, one with postgis and
\* a same-named type in another namespace, and two with postgis where only
\* one of the base types is in the namespace of the extension.
Databases ==
    LET citext == PgExtension("citext", 2)
        postgis == PgExtension("postgis", 1)
        Attributes(types, mods) ==
            { PgAttribute(t, m) : t \in types, m \in mods }
    IN { [ extensions |-> { citext },
           types |-> { PgType("geometry", 2), PgType("geography", 2) },
           attributes |-> Attributes({ PgType("geometry", 2), PgType("geography", 2) },
                                     { Null, Point4326 }) ],
         [ extensions |-> { postgis, citext },
           types |-> { PgType("geometry", 1), PgType("geography", 1) },
           attributes |-> Attributes({ PgType("geometry", 1) }, { Null, Point4326, Point3857 })
                          \cup Attributes({ PgType("geography", 1) }, { Num(-1), Point4326 }) ],
         [ extensions |-> { postgis },
           types |-> { PgType("geometry", 1), PgType("geography", 1), PgType("geometry", 2) },
           attributes |-> Attributes({ PgType("geometry", 2) }, { Null, Point4326 })
                          \cup Attributes({ PgType("geometry", 1) }, { Any4326, PolygonZ4326 })
                          \cup Attributes({ PgType("geography", 1) }, { CollectionZM }) ],
         [ extensions |-> { postgis },
           types |-> { PgType("geometry", 1), PgType("geography", 2) },
           attributes |-> Attributes({ PgType("geometry", 1) }, { Null, Point4326 })
                          \cup Attributes({ PgType("geography", 2) }, { Null }) ],
         [ extensions |-> { postgis },
           types |-> { PgType("geography", 1) },
           attributes |-> Attributes({ PgType("geography", 1) }, { Null, Point4326 }) ] }

\* Gathering begins: the plugins are loaded and the database is introspected.
InitSchema ==
    /\ codec = createPostGISCodec("geometry", Null)
    /\ row = Null
    /\ written = Undef
    /\ last = Idle
    /\ vcall = NoCall
    /\ \E plugin \in CodecPlugins, db \in Databases :
         gather = [ NoGather EXCEPT !.phase = "gather", !.plugin = plugin, !.db = db ]
    /\ build = NoBuild
    /\ field = NoField

\* The host delivers an extension to pgIntrospection_extension.
IntrospectExtension ==
    /\ gather.phase = "gather"
    /\ \E entity \in gather.db.extensions :
         gather' = [ gather EXCEPT !.state = pgIntrospection_extension(gather.state, entity) ]
    /\ UNCHANGED << codec, row, written, last, vcall, build, field >>

\* The host delivers a type to pgIntrospection_type.
IntrospectType ==
    /\ gather.phase = "gather"
    /\ \E pgType \in gather.db.types :
         gather' = [ gather EXCEPT
           !.state = pgIntrospection_type(gather.state, gather.db.extensions, pgType) ]
    /\ UNCHANGED << codec, row, written, last, vcall, build, field >>

\* The host looks the codec of a column's type up: pgCodecs_findPgCodec
\* runs, and where it leaves event.pgCodec unset the host gives the column a
\* codec of its own or none.
FindPgCodec ==
    /\ gather.phase = "gather"
    /\ Cardinality(gather.columns) < MaxColumns
    /\ \E pgAttribute \in gather.db.attributes, hostHasCodec \in BOOLEAN :
         LET found == pgCodecs_findPgCodec(gather.plugin, gather.state, gather.codecByModifier,
                                           pgAttribute.type, pgAttribute.atttypmod)
             pgCodec == IF found.pgCodec # NoCodec THEN found.pgCodec
                        ELSE IF hostHasCodec THEN HostCodec(pgAttribute.type)
                        ELSE NoCodec
         IN /\ \A col \in gather.columns : col.attribute # pgAttribute
            /\ gather' = [ gather EXCEPT
                 !.codecByModifier = found.codecByModifier,
                 !.columns = gather.columns
                             \cup { [ attribute |-> pgAttribute, codec |-> pgCodec ] } ]
    /\ UNCHANGED << codec, row, written, last, vcall, build, field >>

\* The host delivers a column to pgCodecs_attribute, the hook of part_006.
PgCodecsAttribute ==
    /\ gather.phase = "gather"
    /\ gather.plugin = "part_006"
    /\ \E col \in gather.columns :
         LET after == pgCodecs_attribute(gather.state, gather.codecByModifier,
                                         col.codec, col.attribute)
         IN gather' = [ gather EXCEPT
              !.codecByModifier = after.codecByModifier,
              !.columns = (gather.columns \ { col })
                          \cup { [ col EXCEPT !.codec = after.codec ] } ]
    /\ UNCHANGED << codec, row, written, last, vcall, build, field >>

\* Gathering ends and the build hook of PostgisRegisterTypesPlugin runs: the
\* codecs of the columns are the codecs of the registry.
BuildSchema ==
    /\ gather.phase = "gather"
    /\ gather' = [ gather EXCEPT !.phase = "done" ]
    /\ build' = [ build EXCEPT
         !.phase = "build",
         !.pgCodecs = { col.codec : col \in gather.columns } \ { NoCodec } ]
    /\ UNCHANGED << codec, row, written, last, vcall, field >>

\* The init hook of PostgisTypesPlugin, which runs after that of
\* PostgisRegisterTypesPlugin.
TypesPlugin_init ==
    /\ build.phase = "init"
    /\ LET mapped == MapCodecs(build.reg, build.codecTypes, build.pgCodecs)
       IN build' = [ build EXCEPT !.phase = "typed",
                                  !.reg = mapped.reg,
                                  !.codecTypes = mapped.codecTypes ]
    /\ UNCHANGED << codec, row, written, last, vcall, gather, field >>

NextSchema ==
    \/ IntrospectExtension
    \/ IntrospectType
    \/ FindPgCodec
    \/ PgCodecsAttribute
    \/ BuildSchema
    \/ RegisterTypes_init
    \/ TypesPlugin_init

SchemaSpec == InitSchema /\ [][NextSchema]_vars

\* ------------------------------------------- the codec cache of part_006
\* The codec objects of one service.  createPostGISCodec returns a new
\* object each time it is called: the objects are numbered as they are
\* created, 0 standing for no object of the plugin.  A column has a name,
\* its attribute, the codec it holds, the number of that codec object and
\* whether pgCodecs_attribute has been delivered for it; the cache is kept
\* together with the numbers of the objects in it, and the host keeps for
\* each type the codec object its last lookup gave.
CacheTypes == { PgType("geometry", 1), PgType("geography", 1) }

CacheAttributes ==
    { PgAttribute(t, m) : t \in CacheTypes, m \in { Null, Num(-1), Point4326, Point3857 } }

\* The state PostgisExtensionPlugin has after introspection of a database
\* with postgis in namespace 1.
DetectedState ==
    [ postgisExtension |-> PgExtension("postgis", 1),
      geometryType |-> PgType("geometry", 1),
      geographyType |-> PgType("geography", 1),
      postgisDetected |-> TRUE ]

InitCache ==
    /\ codec = createPostGISCodec("geometry", Null)
    /\ row = Null
    /\ written = Undef
    /\ last = Idle
    /\ vcall = NoCall
    /\ gather = [ phase |-> "gather", plugin |-> "part_006",
                  db |-> [ extensions |-> { PgExtension("postgis", 1) },
                           types |-> CacheTypes, attributes |-> CacheAttributes ],
                  state |-> DetectedState, codecByModifier |-> <<>>, columns |-> {},
                  threw |-> FALSE, warnings |-> 0,
                  instances |-> 0, instanceByModifier |-> <<>>, hostCodecs |-> <<>> ]
    /\ build = NoBuild
    /\ field = NoField

\* The host makes an attribute and looks the codec of its type up with the
\* attribute's modifier: pgCodecs_findPgCodec creates a codec object, puts it
\* into the cache and hands it to the host.
LookupType ==
    /\ gather.phase = "gather"
    /\ Cardinality(gather.columns) < MaxColumns
    /\ \E pgAttribute \in gather.db.attributes :
         LET found == pgCodecs_findPgCodec(gather.plugin, gather.state, gather.codecByModifier,
                                           pgAttribute.type, pgAttribute.atttypmod)
             key == ModifierKey(pgAttribute.type.typname, ModifierNumber(pgAttribute.atttypmod))
             instance == gather.instances + 1
         IN gather' = [ gather EXCEPT
              !.codecByModifier = found.codecByModifier,
              !.instances = instance,
              !.instanceByModifier = Put(gather.instanceByModifier, key, instance),
              !.hostCodecs = Put(gather.hostCodecs, pgAttribute.type,
                                 [ codec |-> found.pgCodec, instance |-> instance ]),
              !.columns = gather.columns
                          \cup { [ name |-> Cardinality(gather.columns) + 1,
                                   attribute |-> pgAttribute, codec |-> found.pgCodec,
                                   instance |-> instance, delivered |-> FALSE ] } ]
    /\ UNCHANGED << codec, row, written, last, vcall, build, field >>

\* The host makes an attribute of a type it has looked up before and gives
\* it the codec it got then, whatever the modifier of the attribute.
ReuseCodec ==
    /\ gather.phase = "gather"
    /\ Cardinality(gather.columns) < MaxColumns
    /\ \E pgAttribute \in gather.db.attributes :
         /\ pgAttribute.type \in DOMAIN gather.hostCodecs
         /\ gather' = [ gather EXCEPT
              !.columns = gather.columns
                          \cup { [ name |-> Cardinality(gather.columns) + 1,
                                   attribute |-> pgAttribute,
                                   codec |-> gather.hostCodecs[pgAttribute.type].codec,
                                   instance |-> gather.hostCodecs[pgAttribute.type].instance,
                                   delivered |-> FALSE ] } ]
    /\ UNCHANGED << codec, row, written, last, vcall, build, field >>

\* The host delivers an attribute to pgCodecs_attribute.
DeliverAttribute ==
    /\ gather.phase = "gather"
    /\ \E col \in gather.columns :
         LET after == pgCodecs_attribute(gather.state, gather.codecByModifier,
                                         col.codec, col.attribute)
             key == ModifierKey(col.attribute.type.typname,
                                ModifierNumber(col.attribute.atttypmod))
             created == after.source = "created"
             instance == IF after.source = "kept" THEN col.instance
                         ELSE IF created THEN gather.instances + 1
                         ELSE gather.instanceByModifier[key]
         IN /\ ~col.delivered
            /\ gather' = [ gather EXCEPT
                 !.codecByModifier = after.codecByModifier,
                 !.instances = IF created THEN instance ELSE @,
                 !.instanceByModifier = IF created THEN Put(@, key, instance) ELSE @,
                 !.columns = (gather.columns \ { col })
                             \cup { [ col EXCEPT !.codec = after.codec,
                                                 !.instance = instance,
                                                 !.delivered = TRUE ] } ]
    /\ UNCHANGED << codec, row, written, last, vcall, build, field >>

\* Gathering ends: every attribute has been delivered.
EndGather ==
    /\ gather.phase = "gather"
    /\ gather.columns # {}
    /\ \A col \in gather.columns : col.delivered
    /\ gather' = [ gather EXCEPT !.phase = "done" ]
    /\ UNCHANGED << codec, row, written, last, vcall, build, field >>

NextCache == LookupType \/ ReuseCodec \/ DeliverAttribute \/ EndGather

CacheSpec == InitCache /\ [][NextCache]_vars

\* ------------------------------------- the detector and its services
\* The helpers of the namespace postgis: each is given the name of a
\* service and answers from info.state.
helpers_isPostGISAvailable(state, serviceName) == state.postgisDetected

helpers_getGeometryType(state, serviceName) == state.geometryType

helpers_getGeographyType(state, serviceName) == state.geographyType

\* The databases of the services: with postgis in namespace 1, the same with
\* a second type geometry in namespace 2, with postgis in namespace 2, and
\* without postgis.
WithPostgis ==
    [ extensions |-> { PgExtension("postgis", 1), PgExtension("citext", 2) },
      types |-> { PgType("geometry", 1), PgType("geography", 1) },
      attributes |-> {} ]

WithTwoGeometries ==
    [ extensions |-> { PgExtension("postgis", 1) },
      types |-> { PgType("geometry", 1), PgType("geography", 1), PgType("geometry", 2) },
      attributes |-> {} ]

WithPostgisElsewhere ==
    [ extensions |-> { PgExtension("postgis", 2) },
      types |-> { PgType("geometry", 2), PgType("geography", 2) },
      attributes |-> {} ]

WithoutPostgis ==
    [ extensions |-> { PgExtension("citext", 2) },
      types |-> { PgType("geometry", 2), PgType("geography", 2) },
      attributes |-> {} ]

\* The pgServices of a preset: one service, or two.
ServiceSets ==
    { [ s \in { "main" } |-> db ] :
        db \in { WithPostgis, WithTwoGeometries, WithPostgisElsewhere, WithoutPostgis } }
    \cup { [ s \in { "main", "other" } |-> IF s = "main" THEN a ELSE b ] :
             a \in { WithPostgis, WithoutPostgis },
             b \in { WithPostgis, WithPostgisElsewhere, WithoutPostgis } }

\* The events introspection of the services gives rise to.
EventsOf(services) ==
    { [ serviceName |-> s, kind |-> "extension", entity |-> e ] :
        s \in DOMAIN services, e \in UNION { services[t].extensions : t \in DOMAIN services } }
    \cup { [ serviceName |-> s, kind |-> "type", entity |-> t ] :
             s \in DOMAIN services, t \in UNION { services[u].types : u \in DOMAIN services } }

ServiceEvents(services) ==
    { ev \in EventsOf(services) :
        ev.entity \in (IF ev.kind = "extension" THEN services[ev.serviceName].extensions
                       ELSE services[ev.serviceName].types) }

\* Gathering begins: one state for the plugin, whatever the number of
\* services, and no event delivered.  The type events delivered before the
\* postgis extension of their service are remembered as early.
InitDetector ==
    /\ codec = createPostGISCodec("geometry", Null)
    /\ row = Null
    /\ written = Undef
    /\ last = Idle
    /\ vcall = NoCall
    /\ \E services \in ServiceSets :
         gather = [ phase |-> "gather", plugin |-> "PostgisCodecPlugin.ts", db |-> NoDatabase,
                    state |-> InitialState, codecByModifier |-> <<>>, columns |-> {},
                    threw |-> FALSE, warnings |-> 0,
                    services |-> services, delivered |-> {}, early |-> {} ]
    /\ build = NoBuild
    /\ field = NoField

\* The host delivers an extension of a service to pgIntrospection_extension.
DeliverExtension ==
    /\ gather.phase = "gather"
    /\ \E ev \in ServiceEvents(gather.services) \ gather.delivered :
         /\ ev.kind = "extension"
         /\ gather' = [ gather EXCEPT
              !.state = pgIntrospection_extension(gather.state, ev.entity),
              !.delivered = @ \cup { ev } ]
    /\ UNCHANGED << codec, row, written, last, vcall, build, field >>

\* The host delivers a type of a service to pgIntrospection_type.
DeliverType ==
    /\ gather.phase = "gather"
    /\ \E ev \in ServiceEvents(gather.services) \ gather.delivered :
         /\ ev.kind = "type"
         /\ gather' = [ gather EXCEPT
              !.state = pgIntrospection_type(gather.state,
                                             gather.services[ev.serviceName].extensions,
                                             ev.entity),
              !.delivered = @ \cup { ev },
              !.early = IF \E x \in gather.delivered :
                             /\ x.serviceName = ev.serviceName
                             /\ x.kind = "extension"
                             /\ x.entity.extname = "postgis"
                        THEN @ ELSE @ \cup { ev } ]
    /\ UNCHANGED << codec, row, written, last, vcall, build, field >>

NextDetector == DeliverExtension \/ DeliverType

DetectorSpec == InitDetector /\ [][NextDetector]_vars

\* ------------------------------------------- two builds in one process
\* getGeometryTypeImpl is a variable of the module: every build of the
\* process shares it.  Each build has its phase and the registry its own
\* init hook filled; impl names the build whose getGeometryType the variable
\* holds, "" for null; call is the last call of getPostGISGeometryType: the
\* build object it was made through, its arguments, whether it threw, the
\* name returned and the build whose registry answered.
BuildNames == { "A", "B" }

BuildArgs ==
    { TypeKey(<< "geometry" >>, 1, FALSE, FALSE), TypeKey(<< "geography" >>, 0, FALSE, FALSE),
      TypeKey(<< "geometry" >>, 0, TRUE, FALSE), TypeKey(<< "geography" >>, 3, TRUE, TRUE) }

NoBuildCall ==
    [ through |-> "", args |-> TypeKey(<<>>, 0, FALSE, FALSE), threw |-> FALSE,
      name |-> "", answeredBy |-> "", inited |-> FALSE ]

InitBuilds ==
    /\ codec = createPostGISCodec("geometry", Null)
    /\ row = Null
    /\ written = Undef
    /\ last = Idle
    /\ vcall = NoCall
    /\ gather = NoGather
    /\ build = [ phase |-> "builds",
                 builds |-> [ b \in BuildNames |-> [ phase |-> "idle", reg |-> NoRegistry ] ],
                 impl |-> "", calls |-> 0, call |-> NoBuildCall ]
    /\ field = NoField

\* The build hook of PostgisRegisterTypesPlugin runs in a build: the build
\* object gets getPostGISGeometryType.
Builds_build ==
    /\ \E b \in BuildNames :
         /\ build.builds[b].phase = "idle"
         /\ build' = [ build EXCEPT !.builds[b].phase = "build" ]
    /\ UNCHANGED << codec, row, written, last, vcall, gather, field >>

\* The init hook of PostgisRegisterTypesPlugin runs in a build: it registers
\* its types with that build and stores its getGeometryType in the variable
\* of the module.
Builds_init ==
    /\ \E b \in BuildNames :
         /\ build.builds[b].phase = "build"
         /\ build' = [ build EXCEPT !.builds[b].phase = "init",
                                    !.builds[b].reg = RegisterTypesInit(NoRegistry),
                                    !.impl = b ]
    /\ UNCHANGED << codec, row, written, last, vcall, gather, field >>

\* getPostGISGeometryType is called through the build object of a build.
Builds_getPostGISGeometryType ==
    /\ build.calls < MaxResolves
    /\ \E b \in BuildNames, args \in BuildArgs :
         /\ build.builds[b].phase \in { "build", "init" }
         /\ IF build.impl = ""
            THEN build' = [ build EXCEPT
                   !.calls = @ + 1,
                   !.call = [ through |-> b, args |-> args, threw |-> TRUE, name |-> "",
                              answeredBy |-> "", inited |-> build.builds[b].phase = "init" ] ]
            ELSE LET got == getGeometryType(build.builds[build.impl].reg, args.codecName,
                                            args.subtype, args.hasZ, args.hasM)
                 IN build' = [ build EXCEPT
                      !.calls = @ + 1,
                      !.builds[build.impl].reg = got.reg,
                      !.call = [ through |-> b, args |-> args, threw |-> FALSE,
                                 name |-> got.name, answeredBy |-> build.impl,
                                 inited |-> build.builds[b].phase = "init" ] ]
    /\ UNCHANGED << codec, row, written, last, vcall, gather, field >>

NextBuilds == Builds_build \/ Builds_init \/ Builds_getPostGISGeometryType

BuildsSpec == InitBuilds /\ [][NextBuilds]_vars

\* ------------------------------------------ src/PostgisMutationPlugin.ts
\* What dataplanPg.sqlValueWithCodec returns before any plugin replaced it:
\* a fragment of the library, written here as its arguments.
originalSqlValueWithCodec(value, c) ==
    Returned([ original |-> TRUE, value |-> value, sqlType |-> c.sqlType ],
             << "originalSqlValueWithCodec" >>)

\* The replaced function never looking at the codec.
sqlValueWithCodec_NeverPostGIS(runs, value, c) == originalSqlValueWithCodec(value, c)

\* dataplanPg.sqlValueWithCodec after the build hook has replaced it runs
\* times: each run closes over the function it found and puts
\* customSqlValueWithCodec in its place.
RECURSIVE sqlValueWithCodec(_, _, _)
sqlValueWithCodec(runs, value, c) ==
    IF runs = 0 THEN originalSqlValueWithCodec(value, c)
    ELSE IF c.extensions.isPostGIS THEN sqlValueWithPostGISCodec(value, c)
    ELSE sqlValueWithCodec(runs - 1, value, c)

\* The codecs mutations hand to sqlValueWithCodec: spatial ones, and those
\* of a text column and of a column of a type geometry outside the
\* extension.
TextCodec ==
    [ name |-> << "text" >>, sqlType |-> "text",
      extensions |-> [ isPostGIS |-> FALSE, typeName |-> "text", typeDetails |-> Null ] ]

MutationCodecs ==
    { createPostGISCodec("geometry", Null), createPostGISCodec("geometry", Point4326),
      createPostGISCodec("geography", Null), createPostGISCodec("geography", Point4326),
      TextCodec, HostCodec(PgType("geometry", 2)) }

\* No earlier call to compare with.  The build keeps how often the hook
\* ran (hooks), how often it replaced the function (runs), how often it had
\* replaced it at the last call (called) and the call before the last.
NoPrevious == [ runs |-> 0, arg |-> Undef, out |-> Returned(Undef, <<>>) ]

\* The process starts: build.lib has dataplanPg or not, the hook has not
\* run and sqlValueWithCodec is the library's.
InitMutation ==
    /\ codec \in MutationCodecs
    /\ row = Null
    /\ written = Undef
    /\ last = Idle
    /\ vcall = NoCall
    /\ gather = NoGather
    /\ \E dataplanPg \in BOOLEAN :
         build = [ phase |-> "mutation", dataplanPg |-> dataplanPg, runs |-> 0,
                   hooks |-> 0, warnings |-> 0, called |-> 0, previous |-> NoPrevious ]
    /\ field = NoField

\* The build hook of PostgisMutationPlugin runs, once more for each schema
\* build of the process.
Mutation_build ==
    /\ build.hooks < MaxHookRuns
    /\ IF ~build.dataplanPg
       THEN build' = [ build EXCEPT !.hooks = @ + 1, !.warnings = @ + 1 ]
       ELSE build' = [ build EXCEPT !.hooks = @ + 1, !.runs = @ + 1 ]
    /\ UNCHANGED << codec, row, written, last, vcall, gather, field >>

\* A mutation calls dataplanPg.sqlValueWithCodec with the input of a column
\* and the codec of the column.
CallSqlValueWithCodec ==
    /\ build.dataplanPg
    /\ last.op = "idle"
    /\ \E value \in CodecInputs :
         last' = Call("sqlValueWithCodec", value, sqlValueWithCodec(build.runs, value, codec))
    /\ build' = [ build EXCEPT !.called = build.runs, !.previous = NoPrevious ]
    /\ UNCHANGED << codec, row, written, vcall, gather, field >>

\* The same mutation is made again, after the hook may have run again; the
\* earlier result is kept for comparison.
RepeatSqlValueWithCodec ==
    /\ build.dataplanPg
    /\ last.op = "sqlValueWithCodec"
    /\ build.previous = NoPrevious
    /\ last' = Call("sqlValueWithCodec", last.arg,
                    sqlValueWithCodec(build.runs, last.arg, codec))
    /\ build' = [ build EXCEPT !.called = build.runs,
                               !.previous = [ runs |-> build.called, arg |-> last.arg,
                                              out |-> last.out ] ]
    /\ UNCHANGED << codec, row, written, vcall, gather, field >>

NextMutation == Mutation_build \/ CallSqlValueWithCodec \/ RepeatSqlValueWithCodec

MutationSpec == InitMutation /\ [][NextMutation]_vars

\* ------------------------------------------- the fields of a Polygon
\* Two rings that differ.
Rings ==
    { Arr(<< Arr(<< Num(0), Num(0) >>), Arr(<< Num(30), Num(0) >>),
             Arr(<< Num(30), Num(30) >>), Arr(<< Num(0), Num(0) >>) >>),
      Arr(<< Arr(<< Num(1), Num(1) >>), Arr(<< Num(2), Num(1) >>),
             Arr(<< Num(2), Num(2) >>), Arr(<< Num(1), Num(1) >>) >>) }

\* The ring lists of up to MaxRings rings.
RingLists == UNION { [ 1..n -> Rings ] : n \in 0..MaxRings }

\* Coordinate entries: two pairs and a triple.
Entries ==
    { Arr(<< Num(100), Num(0) >>), Arr(<< Num(101), Num(1) >>),
      Arr(<< Num(5), Num(6), Num(7) >>) }

\* The lists of up to MaxMembers members drawn from a set.
ListsOf(S) == UNION { [ 1..n -> S ] : n \in 0..MaxMembers }

\* { geojson: doc, srid: srid } as the text a SELECT returns; without the
\* srid key when srid is Undef.
Payload(doc, srid) ==
    Text(Obj([ p \in { "geojson" } \cup (IF srid = Undef THEN {} ELSE { "srid" })
               |-> IF p = "geojson" THEN doc ELSE srid ]))

\* The payloads the fields are resolved on: what a SELECT through
\* castFromPg returns for polygons, line strings, multi points, multi line
\* strings, multi polygons and collections, with and without an SRID, for a
\* Point, for documents whose coordinates are no list of arrays, and for a
\* value ST_AsGeoJSON gives no document for.
FieldPayloads ==
    { Payload(Doc(Str("Polygon"), Arr(rings)), srid) :
        rings \in RingLists, srid \in { Undef, Num(0), Num(4326), Num(3857) } }
    \cup { Payload(Doc(Str(t), Arr(entries)), srid) :
             t \in { "LineString", "MultiPoint" }, entries \in ListsOf(Entries),
             srid \in { Undef, Num(4326) } }
    \cup { Payload(Doc(Str("MultiLineString"), Arr(lines)), Num(4326)) :
             lines \in ListsOf({ Arr(<< Arr(<< Num(100), Num(0) >>), Arr(<< Num(101), Num(1) >>) >>),
                                 Arr(<< Arr(<< Num(5), Num(6) >>), Arr(<< Num(7), Num(8) >>) >>) }) }
    \cup { Payload(Doc(Str("MultiPolygon"), Arr(polygons)), Num(4326)) :
             polygons \in ListsOf({ Arr(<< r >>) : r \in Rings }) }
    \cup { Payload(Obj([ type |-> Str("GeometryCollection"), geometries |-> Arr(members) ]),
                   Num(3857)) :
             members \in ListsOf({ Doc(Str("Point"), Arr(<< Num(0), Num(30) >>)),
                                   Doc(Str("LineString"), Arr(<< Arr(<< Num(100), Num(0) >>),
                                                                 Arr(<< Num(101), Num(1) >>) >>)) }) }
    \cup { Payload(Doc(Str("Point"), Arr(<< Num(0), Num(30) >>)), Num(4326)),
           Payload(Doc(Str("LineString"), Arr(<< Num(100), Num(0) >>)), Num(4326)),
           Payload(Doc(Str("LineString"), Str("100 0")), Num(4326)),
           Payload(Doc(Str("MultiPoint"), Undef), Num(4326)),
           Payload(Obj([ type |-> Str("GeometryCollection") ]), Num(4326)),
           Payload(Null, Null) }

InitFields ==
    /\ codec = createPostGISCodec("geometry", Num(getGISTypeModifier(3, FALSE, FALSE, 0)))
    /\ row = Null
    /\ written = Undef
    /\ last = Idle
    /\ vcall = NoCall
    /\ gather = NoGather
    /\ build = NoBuild
    /\ field = NoField

\* A selected payload is decoded by fromPg.
DecodeRow ==
    /\ last.op = "idle"
    /\ \E value \in FieldPayloads : last' = Call("decode", value, fromPg(value))
    /\ UNCHANGED << codec, row, written, vcall, gather, build, field >>

\* A field of the geometry type of a family is resolved on the decoded value.
FieldResult(name, subtype, parent, out) ==
    [ name |-> name, subtype |-> subtype, parent |-> parent,
      result |-> out.ret, threw |-> out.threw ]

\* The field exterior is resolved on the decoded value.
ResolveExterior ==
    /\ last.op = "decode"
    /\ ~last.out.threw
    /\ field' = FieldResult("exterior", 3, last.out.ret, Return(exterior(last.out.ret)))
    /\ UNCHANGED << codec, row, written, last, vcall, gather, build >>

\* The field interiors is resolved on the decoded value.
ResolveInteriors ==
    /\ last.op = "decode"
    /\ ~last.out.threw
    /\ field' = FieldResult("interiors", 3, last.out.ret, Return(interiors(last.out.ret)))
    /\ UNCHANGED << codec, row, written, last, vcall, gather, build >>

\* The field points of the LineString type or of the MultiPoint type.
ResolvePoints ==
    /\ last.op = "decode"
    /\ ~last.out.threw
    /\ \E subtype \in { 2, 4 } :
         field' = FieldResult("points", subtype, last.out.ret,
                           points(last.out.ret, expectedTypes[subtype]))
    /\ UNCHANGED << codec, row, written, last, vcall, gather, build >>

\* The field lineStrings of the MultiLineString type.
ResolveLineStrings ==
    /\ last.op = "decode"
    /\ ~last.out.threw
    /\ field' = FieldResult("lineStrings", 5, last.out.ret, lineStrings(last.out.ret))
    /\ UNCHANGED << codec, row, written, last, vcall, gather, build >>

\* The field geometries of the GeometryCollection type.
ResolveGeometries ==
    /\ last.op = "decode"
    /\ ~last.out.threw
    /\ field' = FieldResult("geometries", 7, last.out.ret, geometries(last.out.ret))
    /\ UNCHANGED << codec, row, written, last, vcall, gather, build >>

\* The field <attribute>_polygons of a table type: its plan hands it the
\* decoded value of the attribute.
ResolveAttributePolygons ==
    /\ last.op = "decode"
    /\ ~last.out.threw
    /\ field' = FieldResult("attribute_polygons", 0, last.out.ret,
                         attribute_polygons(last.out.ret))
    /\ UNCHANGED << codec, row, written, last, vcall, gather, build >>

\* The GraphQLObjectType_fields hook of PostgisPointFieldsPlugin runs for a
\* table type whose attribute location has a codec createPostGISCodec built.
AddPointFields ==
    /\ last.op = "idle"
    /\ \E typeName \in TypeNames, typeModifier \in TypeModifiers :
         LET attributeCodec == createPostGISCodec(typeName, typeModifier)
         IN /\ codec' = attributeCodec
            /\ last' = Call("fields", Str("location"),
                            Returned(Arr(PointFields("location", attributeCodec)), <<>>))
    /\ UNCHANGED << row, written, vcall, gather, build, field >>

NextFields ==
    \/ DecodeRow
    \/ ResolveExterior
    \/ ResolveInteriors
    \/ ResolvePoints
    \/ ResolveLineStrings
    \/ ResolveGeometries
    \/ ResolveAttributePolygons
    \/ AddPointFields

FieldsSpec == InitFields /\ [][NextFields]_vars

\* ================================================================ claims
\* The validator call of the state is a call on an object with properties.
IsDocument(x) == x.k = "object"

FamilyNames == { Str(expectedTypes[i]) : i \in DOMAIN expectedTypes }

\* The index chains (0-based, as the field paths print them) of the leaves
\* of a coordinates array that are not numbers.
RECURSIVE BadLeaves(_, _)
BadLeaves(x, path) ==
    IF IsArray(x)
    THEN UNION { BadLeaves(x.v[i], Append(path, i - 1)) : i \in DOMAIN x.v }
    ELSE IF IsNumber(x) THEN {} ELSE { path }

\* The errors of a list that report a non-numeric leaf.
LeafErrors(errors) ==
    { i \in DOMAIN errors : /\ errors[i].field = "coordinates"
                              /\ errors[i].message = "Coordinate values must be numbers" }

\* Every non-numeric leaf of the coordinates is reported, once each, under
\* the field path of its index chain.
ReportsEveryBadLeaf(errors, coordinates) ==
    /\ Len(errors) > 0
    /\ { errors[i].path : i \in LeafErrors(errors) } = BadLeaves(coordinates, <<>>)
    /\ Cardinality(LeafErrors(errors)) = Cardinality(BadLeaves(coordinates, <<>>))

\* C8: whenever validateGeoJSONStructure reports an error for a value,
\* validateGeoJSON returns exactly those structural errors and no error about
\* coordinates, whatever the coordinates hold and whatever expectedType is.
C8_StructuralErrorsOnly ==
    Len(vcall.structure) > 0 =>
        /\ ~vcall.result.threw
        /\ vcall.result.ret = vcall.structure
        /\ \A i \in DOMAIN vcall.result.ret : vcall.result.ret[i].field # "coordinates"

\* C8 witness: a document of unknown type with a non-numeric leaf in its
\* coordinates, validated against an expected type.
C8_Witness ==
    /\ Len(vcall.structure) > 0
    /\ Get(vcall.value, "type") = Str("InvalidType")
    /\ BadLeaves(Get(vcall.value, "coordinates"), <<>>) # {}
    /\ IsArray(Get(vcall.value, "coordinates"))
    /\ vcall.expectedType = Str("Point")
    /\ Len(vcall.result.ret) = 1

\* C9 as claimed: with an expectedType that differs from the document's
\* type, validateGeoJSON returns the type-mismatch error and every
\* coordinate error the document yields without expectedType, the per-family
\* minimums included.
C9_MismatchKeepsCoordinateErrors ==
    ( /\ IsDocument(vcall.value)
      /\ Len(vcall.structure) = 0
      /\ vcall.expectedType # Undef
      /\ Get(vcall.value, "type") # vcall.expectedType )
    => /\ ~vcall.result.threw
       /\ \E i \in DOMAIN vcall.result.ret :
            vcall.result.ret[i].field = "type" /\ vcall.result.ret[i].args[1] = vcall.expectedType
       /\ \A j \in DOMAIN vcall.plain.ret :
            vcall.plain.ret[j].field = "coordinates"
            => \E i \in DOMAIN vcall.result.ret : vcall.result.ret[i] = vcall.plain.ret[j]

\* C10 as claimed: for every document whose coordinates contain a
\* non-numeric leaf, validateGeoJSON returns a non-empty list with one error
\* per such leaf, under the field path of the leaf's index chain.
C10_AnyDocument ==
    ( /\ IsDocument(vcall.value)
      /\ IsArray(Get(vcall.value, "coordinates"))
      /\ BadLeaves(Get(vcall.value, "coordinates"), <<>>) # {} )
    => /\ ~vcall.result.threw
       /\ ReportsEveryBadLeaf(vcall.result.ret, Get(vcall.value, "coordinates"))

\* C10 amended: for every document whose type is one of the seven geometry
\* family names and whose coordinates contain a non-numeric leaf,
\* validateGeoJSON returns a non-empty list with one error per such leaf,
\* under the field path of the leaf's index chain.
C10_GeometryDocument ==
    ( /\ IsDocument(vcall.value)
      /\ Get(vcall.value, "type") \in FamilyNames
      /\ IsArray(Get(vcall.value, "coordinates"))
      /\ BadLeaves(Get(vcall.value, "coordinates"), <<>>) # {} )
    => /\ ~vcall.result.threw
       /\ ReportsEveryBadLeaf(vcall.result.ret, Get(vcall.value, "coordinates"))
       /\ ReportsEveryBadLeaf(vcall.plain.ret, Get(vcall.value, "coordinates"))

\* C10 witness: a geometry document with two non-numeric leaves two levels
\* down, both reported.
C10_Witness ==
    /\ Get(vcall.value, "type") = Str("MultiPoint")
    /\ BadLeaves(Get(vcall.value, "coordinates"), <<>>) = { << 1, 0 >>, << 1, 1 >> }
    /\ Cardinality(LeafErrors(vcall.result.ret)) = 2

\* ------------------------------------------------ claims about the codec
\* The column of the codec is constrained to one of the seven families.
Constrained(c) ==
    /\ ~Falsy(c.extensions.typeDetails)
    /\ Details(c).subtype \in 1..7

\* The GeoJSON name of the family the column is constrained to.
FamilyName(c) == Str(expectedTypes[Details(c).subtype])

\* Every value an error message interpolates, its parts included.
Mentions(err) ==
    Range(err.args) \cup UNION { Range(err.parts[i].args) : i \in DOMAIN err.parts }

\* The call of the state is toPg on a document that carries a type string.
ToPgOnTypedDocument ==
    /\ last.op = "toPg"
    /\ IsDocument(last.arg)
    /\ Get(last.arg, "type").k = "string"

\* C1 as claimed: on a column constrained to a family, toPg rejects every
\* input whose type differs from the family's name with an error that names
\* the expected and the received type; on an unconstrained column toPg never
\* raises the type-mismatch error.
C1_MismatchNamesBothTypes ==
    ToPgOnTypedDocument =>
        /\ (Constrained(codec) /\ Get(last.arg, "type") # FamilyName(codec))
           => /\ last.out.threw
              /\ { FamilyName(codec), Get(last.arg, "type") } \subseteq Mentions(last.out.ret)
        /\ ~Constrained(codec)
           => ~(last.out.threw /\ last.out.ret.message = TypeMismatchMessage)

\* C2 as claimed: when the input's type is another family than the column's,
\* the error toPg raises is the family-mismatch error alone, with no
\* coordinate-validation message, also when the coordinates are invalid.
C2_MismatchReportedAlone ==
    ( /\ ToPgOnTypedDocument
      /\ Constrained(codec)
      /\ IsValidType(Get(last.arg, "type"))
      /\ Get(last.arg, "type") # FamilyName(codec) )
    => /\ last.out.threw
       /\ last.out.ret.message = TypeMismatchMessage
       /\ last.out.ret.parts = <<>>

\* C3: whenever validateGeoJSON reports a non-empty list for the input, toPg
\* returns no serialized form and throws one error whose message holds the
\* field and the message of every reported validation error.
C3_EveryValidationErrorInMessage ==
    ( /\ last.op = "toPg"
      /\ ~IsNullish(last.arg)
      /\ Len(validateGeoJSON(last.arg, Undef).ret) > 0 )
    => /\ last.out.threw
       /\ last.out.ret.message = InvalidGeoJSONMessage
       /\ \A i \in DOMAIN validateGeoJSON(last.arg, Undef).ret :
            \E j \in DOMAIN last.out.ret.parts :
               LET e == validateGeoJSON(last.arg, Undef).ret[i]
                   part == last.out.ret.parts[j]
               IN /\ part.field = e.field
                  /\ part.path = e.path
                  /\ part.message = e.message
                  /\ part.args = e.args

\* C3 witness: toPg threw for an input with several validation errors.
C3_Witness ==
    /\ last.op = "toPg"
    /\ last.out.threw
    /\ last.out.ret.message = InvalidGeoJSONMessage
    /\ Len(last.out.ret.parts) >= 2

\* The SRID the shape of the column carries, 0 when it carries none.
ShapeSRID(c) == IF Falsy(c.extensions.typeDetails) THEN 0 ELSE Details(c).srid

C5_NullNeverReachesToPg ==
    /\ (last.op = "toPg" /\ IsNullish(last.arg))
       => (last.out.threw /\ last.out.ret.message = NullInputMessage)
    /\ (last.op = "sqlValueWithCodec" /\ IsNullish(last.arg))
       => /\ ~last.out.threw
          /\ last.out.ret = Sql(Null, <<>>, codec.sqlType)
          /\ last.out.calls = <<>>
    /\ (last.op = "execute" /\ IsNullish(last.arg))
       => (~last.out.threw /\ row = Null)

\* C5 witness: a mutation set the column of a constrained codec to null.
C5_Witness ==
    /\ last.op = "execute"
    /\ last.arg = Null
    /\ ~last.out.threw
    /\ row = Null
    /\ Constrained(codec)

\* The call of the state is fromPg, on a selected payload or any other.
FromPgCalled == last.op \in {"fromPg", "fromPgRaw"}

\* The payload is absent: null, undefined or the empty string.
AbsentPayload(x) == x \in { Null, Undef, Str("") }

\* The payload is JSON text of a value that is not null and has no truthy
\* geojson member.
NoGeoJSONPayload(x) ==
    /\ x.k = "text"
    /\ x.v # Null
    /\ Falsy(Get(x.v, "geojson"))

\* C6 as claimed: fromPg returns null exactly when the payload is null,
\* undefined or empty; for every other payload it returns a result carrying
\* a geojson value or throws.
C6_NullOnlyForAbsentPayload ==
    FromPgCalled =>
        /\ (~last.out.threw /\ last.out.ret = Null) <=> AbsentPayload(last.arg)
        /\ ~AbsentPayload(last.arg)
           => (last.out.threw \/ HasKey(last.out.ret, "geojson"))

\* C6 amended: fromPg returns null, without throwing, exactly when the
\* payload is null, undefined or empty, or is JSON text of a non-null value
\* with no truthy geojson member (the payload of a NULL column); a payload
\* that is not JSON text, or is the JSON text null, always throws; every
\* other payload yields a result carrying the payload's geojson value.
C6_NullForAbsentOrNoGeoJSON ==
    FromPgCalled =>
        /\ (~last.out.threw /\ last.out.ret = Null)
           <=> (AbsentPayload(last.arg) \/ NoGeoJSONPayload(last.arg))
        /\ (~AbsentPayload(last.arg) /\ (last.arg.k # "text" \/ last.arg.v = Null))
           => (last.out.threw /\ last.out.ret.message = ParseFailedMessage)
        /\ (~last.out.threw /\ last.out.ret # Null)
           => /\ HasKey(last.out.ret, "geojson")
              /\ Get(last.out.ret, "geojson") = Get(last.arg.v, "geojson")

\* C6 witness: the payload selected from a NULL column decodes to null.
C6_Witness ==
    /\ last.op = "fromPg"
    /\ row = Null
    /\ NoGeoJSONPayload(last.arg)
    /\ ~last.out.threw
    /\ last.out.ret = Null

\* The column is a geometry Point column without Z and the stored value was
\* written from a valid Point document with two ordinates.
PointWrittenToPointColumn ==
    /\ codec.extensions.typeName = "geometry"
    /\ Constrained(codec)
    /\ Details(codec).subtype = 1
    /\ ~Details(codec).hasZ
    /\ row # Null
    /\ IsDocument(written)
    /\ Get(written, "type") = Str("Point")
    /\ IsArray(Get(written, "coordinates"))
    /\ Len(Get(written, "coordinates").v) = 2

HasCoordinatesError(errors) ==
    \E i \in DOMAIN errors : errors[i].field = "coordinates"

\* The coordinates of a document fall short of what its family requires: a
\* Point array with fewer than 2 elements or a non-numeric element, a
\* LineString with fewer than 2 positions or a position shorter than 2, a
\* Polygon with no ring or a ring shorter than 4.
BelowFamilyMinimum(type, coords) ==
    /\ IsArray(coords)
    /\ \/ /\ type = Str("Point")
          /\ Len(coords.v) < 2 \/ \E i \in DOMAIN coords.v : ~IsNumber(coords.v[i])
       \/ /\ type = Str("LineString")
          /\ \/ Len(coords.v) < 2
             \/ \E i \in DOMAIN coords.v : ~IsArray(coords.v[i]) \/ Len(coords.v[i].v) < 2
       \/ /\ type = Str("Polygon")
          /\ \/ Len(coords.v) < 1
             \/ \E i \in DOMAIN coords.v : ~IsArray(coords.v[i]) \/ Len(coords.v[i].v) < MinRing

\* C11: validateGeoJSON returns at least one error whose field references
\* coordinates for every Point whose coordinates have fewer than 2 elements
\* or a non-numeric element, every LineString with fewer than 2 positions
\* or a position shorter than 2, and every Polygon with no ring or a ring
\* shorter than 4 (the call made with the document alone, or with the
\* document's own type as expected type).
C11_FamilyMinimumReported ==
    ( /\ IsDocument(vcall.value)
      /\ BelowFamilyMinimum(Get(vcall.value, "type"), Get(vcall.value, "coordinates")) )
    => /\ ~vcall.plain.threw
       /\ HasCoordinatesError(vcall.plain.ret)
       /\ vcall.expectedType \in { Undef, Get(vcall.value, "type") }
          => (~vcall.result.threw /\ HasCoordinatesError(vcall.result.ret))

\* C11 witness: a Polygon whose only ring has three positions of numbers was
\* validated, and the only error is the one of the per-family check.
C11_Witness ==
    /\ Get(vcall.value, "type") = Str("Polygon")
    /\ Get(vcall.value, "coordinates") = Tree(<< 1, MinRing - 1, 2 >>, <<>>, "none", <<>>)
    /\ Len(vcall.plain.ret) = 1
    /\ HasCoordinatesError(vcall.plain.ret)

\* The families whose documents carry coordinates.
CoordinateFamilies == { Str(expectedTypes[i]) : i \in 1..6 }

\* Some array nested inside x, at any depth below x itself, is empty.
RECURSIVE HasEmptyNested(_)
HasEmptyNested(x) ==
    /\ IsArray(x)
    /\ \E i \in DOMAIN x.v :
         IsArray(x.v[i]) /\ (Len(x.v[i].v) = 0 \/ HasEmptyNested(x.v[i]))

\* The Geographic Value invariant of a document: a coordinates array, every
\* leaf a number, no empty array nested inside, every Polygon ring of at
\* least 4 coordinate pairs.
GeographicValue(doc) ==
    LET coords == Get(doc, "coordinates")
    IN /\ IsArray(coords)
       /\ BadLeaves(coords, <<>>) = {}
       /\ ~HasEmptyNested(coords)
       /\ Get(doc, "type") = Str("Polygon")
          => \A i \in DOMAIN coords.v :
               /\ IsArray(coords.v[i])
               /\ Len(coords.v[i].v) >= MinRing
               /\ \A j \in DOMAIN coords.v[i].v : IsArray(coords.v[i].v[j])

\* C12 as claimed: every document of a coordinate-bearing family that
\* validateGeoJSON accepts with an empty list has a coordinates array, only
\* numeric leaves, no empty nested array and, for a Polygon, rings of at
\* least 4 coordinate pairs.
C12_AcceptedIsGeographicValue ==
    ( /\ IsDocument(vcall.value)
      /\ Get(vcall.value, "type") \in CoordinateFamilies
      /\ ~vcall.plain.threw
      /\ vcall.plain.ret = <<>> )
    => GeographicValue(vcall.value)

\* ------------------------------------------- claims about the registry
\* The arguments of the calls of getPostGISGeometryType that returned.
Resolved == { a \in DOMAIN build.resolved : build.resolved[a].names # {} }

\* C13 as claimed: within one build, whatever calls of
\* getPostGISGeometryType are made, calls with the same (base type name,
\* family, hasZ, hasM) return the same type name, and no object type name
\* and no interface name is registered more than once.
C13_MemoizedAndRegisteredOnce ==
    /\ \A a \in Resolved : Cardinality(build.resolved[a].names) = 1
    /\ \A n \in DOMAIN build.reg.objects : build.reg.objects[n].count = 1
    /\ \A n \in DOMAIN build.reg.interfaces : build.reg.interfaces[n] = 1

\* The shapes of the families 1..7.
FamilyShapes == { a \in TypeShapes : a.subtype \in 1..7 }

\* The bare family words.
FamilyWords == { expectedTypes[i] : i \in DOMAIN expectedTypes }

\* The names of the generic descriptors.
GenericNames == { gisType(BaseTypeNames[b], 0, FALSE, FALSE) : b \in 1..2 }

\* The name a resolved shape was given is the name of no other shape of the
\* families 1..7.
NameIsItsOwn(a) ==
    \A n \in build.resolved[a].names :
        /\ n = gisType(a.codecName, a.subtype, a.hasZ, a.hasM)
        /\ \A t \in FamilyShapes \ {a} : gisType(t.codecName, t.subtype, t.hasZ, t.hasM) # n

Spatial(c) == c.extensions.isPostGIS

\* The family of a codec: 0 when it has no type details.
FamilyOf(c) == IF Falsy(c.extensions.typeDetails) THEN 0 ELSE Details(c).subtype

\* The shape of a spatial codec: its base type, family and dimensions, the
\* SRID left out.
ShapeOf(c) ==
    IF FamilyOf(c) = 0 THEN TypeKey(<< c.sqlType >>, 0, FALSE, FALSE)
    ELSE TypeKey(<< c.sqlType >>, Details(c).subtype, Details(c).hasZ, Details(c).hasM)

\* The object type is registered once and implements the base interface only.
OnlyBaseInterface(name) ==
    /\ name \in DOMAIN build.reg.objects
    /\ build.reg.objects[name].interfaces = { << "GeometryInterface" >> }

\* C15: after the init hook of PostgisTypesPlugin every spatial codec has
\* the input type GeoJSON and the output type the registry holds for its
\* (base type, family, hasZ, hasM) when its family is in 1..7, the generic
\* type of its base type, which implements only the base interface, when it
\* is unconstrained; codecs of one shape that differ in SRID have one
\* output type.
C15_CodecTypesFollowShape ==
    build.phase = "typed" =>
      \A c \in build.pgCodecs :
        Spatial(c) =>
          /\ c \in DOMAIN build.codecTypes
          /\ build.codecTypes[c].input = "GeoJSON"
          /\ ShapeOf(c) \in DOMAIN build.reg.typeNames
          /\ build.codecTypes[c].output = build.reg.typeNames[ShapeOf(c)]
          /\ build.codecTypes[c].output
               = gisType(<< c.sqlType >>, ShapeOf(c).subtype, ShapeOf(c).hasZ, ShapeOf(c).hasM)
          /\ FamilyOf(c) = 0 => OnlyBaseInterface(build.codecTypes[c].output)
          /\ \A d \in build.pgCodecs :
               Spatial(d) /\ ShapeOf(d) = ShapeOf(c)
               => build.codecTypes[d].output = build.codecTypes[c].output

\* C15 witness: two Point columns of geometry with different SRIDs got
\* two codecs and one output type.
C15_Witness ==
    /\ build.phase = "typed"
    /\ \E c \in build.pgCodecs, d \in build.pgCodecs :
         /\ Spatial(c) /\ Spatial(d) /\ c # d
         /\ FamilyOf(c) = 1 /\ ShapeOf(c) = ShapeOf(d)
         /\ Details(c).srid # Details(d).srid
         /\ build.codecTypes[c].output = "GeometryPoint"
         /\ build.codecTypes[d].output = "GeometryPoint"

\* The database has no extension named postgis.
NoPostgis(db) == \A e \in db.extensions : e.extname # "postgis"

DetectionComplete ==
    /\ \A e \in gather.db.extensions : pgIntrospection_extension(gather.state, e) = gather.state
    /\ \A t \in gather.db.types :
         pgIntrospection_type(gather.state, gather.db.extensions, t) = gather.state

\* C17 as claimed: when gathering has ended with the extension absent, or
\* present with a base type that was not located, exactly one warning was
\* emitted and no hook threw.
C17_OneWarningPerPass ==
    /\ gather.phase = "done"
    /\ DetectionComplete
    /\ \/ NoPostgis(gather.db)
       \/ gather.state.geometryType = NoType
       \/ gather.state.geographyType = NoType
    => gather.warnings = 1 /\ ~gather.threw

\* C18: a type is recorded as the geometry or geography base type, and a
\* column is given a spatial codec, only when the type's namespace is the
\* namespace of the postgis extension.
C18_NamespaceOfTheExtension ==
    LET postgis == getExtensionByName(gather.db.extensions, "postgis")
        InExtension(t) ==
            /\ postgis # NoExtension
            /\ t.typnamespace = postgis.extnamespace
    IN gather.phase # "idle" =>
         /\ gather.state.geometryType # NoType
            => gather.state.geometryType.typname = "geometry"
               /\ InExtension(gather.state.geometryType)
         /\ gather.state.geographyType # NoType
            => gather.state.geographyType.typname = "geography"
               /\ InExtension(gather.state.geographyType)
         /\ \A col \in gather.columns :
              Spatial(col.codec) =>
                /\ col.attribute.type.typname \in { "geometry", "geography" }
                /\ InExtension(col.attribute.type)
                /\ col.codec.sqlType = col.attribute.type.typname

\* C18 witness: with both base types recorded, a column of the geometry
\* type of the extension has a spatial codec and a column of the geometry
\* type of another namespace has the host's codec.
C18_Witness ==
    /\ gather.state.geometryType = PgType("geometry", 1)
    /\ gather.state.geographyType = PgType("geography", 1)
    /\ \E col \in gather.columns :
         col.attribute.type = PgType("geometry", 1) /\ Spatial(col.codec)
    /\ \E col \in gather.columns :
         /\ col.attribute.type = PgType("geometry", 2)
         /\ col.codec = HostCodec(PgType("geometry", 2))

\* The extension is detected, every event was delivered and one base type
\* alone is recorded.
OneBaseTypeLocated ==
    /\ gather.phase = "gather"
    /\ gather.state.postgisDetected
    /\ DetectionComplete
    /\ (gather.state.geometryType = NoType) # (gather.state.geographyType = NoType)

\* C19 as claimed: when the extension is detected and one base type alone
\* is located, a codec lookup leaves availability true and throws nothing,
\* a column of the missing base type gets no spatial codec, and a column of
\* the located base type gets its spatial codec.
C19_LocatedTypeKeepsItsCodec ==
    [][ OneBaseTypeLocated =>
          /\ isPostGISAvailable(gather'.state)
          /\ ~gather'.threw
          /\ \A col \in gather'.columns \ gather.columns :
               IF col.attribute.type \in { gather.state.geometryType, gather.state.geographyType }
               THEN Spatial(col.codec)
               ELSE ~Spatial(col.codec) ]_vars

\* ------------------------------------------------ src/PostgisScalarPlugin.ts
JsBool(b) == [k |-> "boolean", v |-> b]

\* new GraphQLError(message), the text after the colon kept apart.
GraphQLError(message, args) ==
    [name |-> "GraphQLError", message |-> message, parts |-> <<>>, args |-> args]

InvalidStringMessage == "Invalid GeoJSON string: $1"
CannotParseMessage == "GeoJSON can only parse object or string values (kind='$1')"

\* typeof value === "string": a string that is JSON text or one that is not.
IsString(value) == value.k \in { "string", "text" }

\* serialize of the GeoJSON scalar.
serialize(value) == Return(value)

\* parseValue of the GeoJSON scalar: a value from the variables.
parseValue(value) ==
    IF value.k = "object" THEN Return(value)
    ELSE IF IsString(value)
    THEN IF JSONparseThrows(value)
         THEN Throw(GraphQLError(InvalidStringMessage, << "SyntaxError" >>))
         ELSE Return(JSONparse(value))
    ELSE Return(value)

\* A node of a query document: its kind and the value it denotes, for an
\* object node what valueFromASTUntyped makes of it.
Ast(kind, value) == [kind |-> kind, value |-> value]

\* parseLiteral of the GeoJSON scalar: a node of the query document.
parseLiteral(ast) ==
    IF ast.kind = "ObjectValue" THEN Return(ast.value)
    ELSE IF ast.kind = "StringValue"
    THEN IF JSONparseThrows(ast.value)
         THEN Throw(GraphQLError(InvalidStringMessage, << "SyntaxError" >>))
         ELSE Return(JSONparse(ast.value))
    ELSE Throw(GraphQLError(CannotParseMessage, << ast.kind >>))

\* The values a client sends in the variables for a GeoJSON input; null is
\* coerced before parseValue is called.
ScalarValues ==
    (CodecInputs \ { Null, Undef })
    \cup { JSONstringify(x) : x \in CodecInputs \ { Undef } }
    \cup { Str("not json"), Str(""), JsBool(TRUE), Num(0) }

\* The nodes a client writes for a GeoJSON input.
ScalarLiterals ==
    { Ast("ObjectValue", x) : x \in { v \in ScalarValues : v.k = "object" } }
    \cup { Ast("StringValue", x) : x \in { v \in ScalarValues : IsString(v) } }
    \cup { Ast("IntValue", Str("5")), Ast("FloatValue", Str("0.5")),
           Ast("BooleanValue", JsBool(TRUE)), Ast("EnumValue", Str("Point")),
           Ast("ListValue", Arr(<< Num(1), Num(2) >>)) }

InitScalar ==
    /\ codec = createPostGISCodec("geometry", Null)
    /\ row = Null
    /\ written = Undef
    /\ last = Idle
    /\ vcall = NoCall
    /\ gather = NoGather
    /\ build = NoBuild
    /\ field = NoField

\* A variable of type GeoJSON is coerced.
ParseValue ==
    /\ last.op = "idle"
    /\ \E value \in ScalarValues : last' = Call("parseValue", value, parseValue(value))
    /\ UNCHANGED << codec, row, written, vcall, gather, build, field >>

\* A literal of type GeoJSON is coerced.
ParseLiteral ==
    /\ last.op = "idle"
    /\ \E ast \in ScalarLiterals : last' = Call("parseLiteral", ast, parseLiteral(ast))
    /\ UNCHANGED << codec, row, written, vcall, gather, build, field >>

\* A geojson field of a result is serialized: the document of a decoded
\* value.
Serialize ==
    /\ last.op = "idle"
    /\ \E value \in { v \in ScalarValues : v.k = "object" } \cup { Null } :
         last' = Call("serialize", value, serialize(value))
    /\ UNCHANGED << codec, row, written, vcall, gather, build, field >>

NextScalar == ParseValue \/ ParseLiteral \/ Serialize

ScalarSpec == InitScalar /\ [][NextScalar]_vars

\* ------------------------------------------ claims about the fields
\* The rings of a decoded Polygon, <<>> for any other value.
RingsOf(parent) ==
    IF /\ Get(Get(parent, "geojson"), "type") = Str("Polygon")
       /\ IsArray(Get(Get(parent, "geojson"), "coordinates"))
    THEN Get(Get(parent, "geojson"), "coordinates").v
    ELSE <<>>

\* C20: for a decoded Polygon with n >= 1 rings and SRID s, exterior is
\* ring 0 wrapped as a LineString sub-result with SRID s, and interiors is
\* the list of the rings 1..n-1 in their order, each wrapped the same way;
\* with one ring interiors is the empty list, not null.
C20_ExteriorAndInteriors ==
    LET rings == RingsOf(field.parent)
        n == Len(rings)
        s == Get(field.parent, "srid")
        Wrapped(ring) ==
            Obj([ geojson |-> Doc(Str("LineString"), ring), srid |-> s ])
    IN n >= 1 =>
         /\ field.name = "exterior" => field.result = Wrapped(rings[1])
         /\ field.name = "interiors" =>
              /\ IsArray(field.result)
              /\ Len(field.result.v) = n - 1
              /\ \A i \in 1..(n - 1) : field.result.v[i] = Wrapped(rings[i + 1])
              /\ n = 1 => field.result = Arr(<<>>)

\* C20 witness: interiors was resolved on a polygon of three rings with
\* SRID 4326, the two holes differing, and gave two sub-results.
C20_Witness ==
    /\ field.name = "interiors"
    /\ Len(RingsOf(field.parent)) = 3
    /\ RingsOf(field.parent)[2] # RingsOf(field.parent)[3]
    /\ Get(field.parent, "srid") = Num(4326)
    /\ Len(field.result.v) = 2

\* The coordinate entries of a decoded value of the family a points field
\* belongs to, <<>> for any other value.
EntriesOf(parent, subtype) ==
    IF /\ subtype \in { 2, 4 }
       /\ Get(Get(parent, "geojson"), "type") = Str(expectedTypes[subtype])
       /\ IsArray(Get(Get(parent, "geojson"), "coordinates"))
       /\ \A i \in DOMAIN Get(Get(parent, "geojson"), "coordinates").v :
            IsArray(Get(Get(parent, "geojson"), "coordinates").v[i])
    THEN Get(Get(parent, "geojson"), "coordinates").v
    ELSE <<>>

\* C21: for a decoded LineString or MultiPoint with k coordinate entries and
\* SRID s, points has exactly k Point sub-results in coordinate order, the
\* i-th carrying geojson {type: Point, coordinates: entry i}, x and y equal
\* to the first two ordinates of entry i, and SRID s.
C21_PointsInCoordinateOrder ==
    LET entries == EntriesOf(field.parent, field.subtype)
        s == Get(field.parent, "srid")
    IN (field.name = "points" /\ Len(entries) >= 1) =>
         /\ ~field.threw
         /\ IsArray(field.result)
         /\ Len(field.result.v) = Len(entries)
         /\ \A i \in DOMAIN entries :
              /\ Get(field.result.v[i], "geojson") = Doc(Str("Point"), entries[i])
              /\ Get(field.result.v[i], "x") = entries[i].v[1]
              /\ Get(field.result.v[i], "y") = entries[i].v[2]
              /\ Get(field.result.v[i], "srid") = s

\* C21 witness: points was resolved on a MultiPoint of two different
\* entries with SRID 4326 and gave two sub-results.
C21_Witness ==
    /\ field.name = "points"
    /\ field.subtype = 4
    /\ Len(EntriesOf(field.parent, 4)) = 2
    /\ EntriesOf(field.parent, 4)[1] # EntriesOf(field.parent, 4)[2]
    /\ Get(field.parent, "srid") = Num(4326)
    /\ Len(field.result.v) = 2

\* The list-valued fields of the geometry types.
ListFields == { "points", "interiors", "lineStrings", "geometries" }

\* C22: every list-valued derived field returns a list for every parent
\* value: when the decoded value is absent, lacks geojson, has a different
\* type or has non-array coordinates, the field returns the empty list,
\* never null and never a thrown error.
C22_ListFieldsReturnLists ==
    field.name \in ListFields =>
      /\ ~field.threw
      /\ IsArray(field.result)

\* C23: for a MultiPolygon output value with k member polygons and SRID s,
\* the polygons field of its geometry type returns k Polygon-shaped
\* sub-results in order, the i-th being {geojson: {type: Polygon,
\* coordinates: member i}, srid: s}: the geometry type of the family has a
\* field polygons, and the polygons field there is gives these sub-results.
C23_PolygonsOfMultiPolygon ==
    LET geojson == Get(field.parent, "geojson")
        members == Get(geojson, "coordinates")
        s == Get(field.parent, "srid")
    IN ( /\ field.name = "attribute_polygons"
         /\ Get(geojson, "type") = Str("MultiPolygon")
         /\ IsArray(members) ) =>
              /\ "polygons" \in GeometryTypeFields(6)
              /\ ~field.threw
              /\ IsArray(field.result)
              /\ Len(field.result.v) = Len(members.v)
              /\ \A i \in DOMAIN members.v :
                   field.result.v[i] =
                     Obj([ geojson |-> Doc(Str("Polygon"), members.v[i]), srid |-> s ])

\* The fields the hook added, as a set of names.
AddedFields == { last.out.ret.v[i].v : i \in DOMAIN last.out.ret.v }

\* C24: a Point column exposes its axes as x/y/z when its base type is
\* geometry and as longitude/latitude/height when its base type is
\* geography, for every Point codec including SRID- or dimension-constrained
\* ones; the third axis field exists only when the shape's hasZ is true.
C24_AxisNamesFollowBaseType ==
    ( /\ last.op = "fields"
      /\ ~Falsy(codec.extensions.typeDetails)
      /\ Details(codec).subtype = 1 ) =>
        LET geography == codec.extensions.typeName = "geography"
            first == IF geography THEN "location_longitude" ELSE "location_x"
            second == IF geography THEN "location_latitude" ELSE "location_y"
            third == IF geography THEN "location_height" ELSE "location_z"
        IN /\ first \in AddedFields
           /\ second \in AddedFields
           /\ third \in AddedFields <=> Details(codec).hasZ
           /\ AddedFields \subseteq { first, second, third, "location_srid" }

\* ------------------------------------------ claims about the scalar
\* What a parse call of the scalar was given: the variable's value, or the
\* value of the literal provided the literal is an object or a string.
ParseInput ==
    IF last.op = "parseValue" THEN last.arg
    ELSE IF last.arg.kind \in { "ObjectValue", "StringValue" } THEN last.arg.value
    ELSE Undef

\* C25: the GeoJSON scalar accepts exactly JSON objects and JSON-encoded
\* strings on input, on both the variable path (parseValue) and the literal
\* path (parseLiteral): either yields the JSON object, a string that is not
\* valid JSON raises a GraphQL error, any other kind of input is rejected on
\* both paths, and serialize returns the JSON object unchanged.
C25_ObjectsAndJsonStringsOnly ==
    /\ last.op \in { "parseValue", "parseLiteral" } =>
         IF ParseInput.k = "object"
         THEN last.out = Return(ParseInput)
         ELSE IF ParseInput.k = "text"
         THEN last.out = Return(ParseInput.v)
         ELSE /\ last.out.threw
              /\ last.out.ret.name = "GraphQLError"
    /\ last.op = "serialize" => last.out = Return(last.arg)

\* ------------------------------------------ claims about the codec cache
\* The columns whose modifier constrains them.
ConstrainedColumns ==
    { col \in gather.columns : ~IsNullish(col.attribute.atttypmod)
                                /\ col.attribute.atttypmod # Num(-1) }

\* C26: for any order of type-lookup and attribute events within one
\* service, once gathering ends every spatial attribute with a modifier m
\* that is neither null nor -1 holds a codec built from exactly (its base
\* type, m), and all attributes with the same base type and modifier hold
\* one and the same codec instance, the one the cache maps (base type, m)
\* to; attributes with modifier null or -1 keep the unconstrained codec.
C26_OneCodecPerModifier ==
    (gather.plugin = "part_006" /\ gather.phase = "done"
     /\ "instances" \in DOMAIN gather) =>
      /\ \A col \in ConstrainedColumns :
           /\ col.codec = createPostGISCodec(col.attribute.type.typname, col.attribute.atttypmod)
           /\ col.instance = gather.instanceByModifier[
                               ModifierKey(col.attribute.type.typname, col.attribute.atttypmod)]
      /\ \A c1 \in ConstrainedColumns, c2 \in ConstrainedColumns :
           c1.attribute = c2.attribute => c1.instance = c2.instance
      /\ \A col \in gather.columns \ ConstrainedColumns :
           col.codec = createPostGISCodec(col.attribute.type.typname, Null)

\* ------------------------------------------ claims about the detector
\* C27: the availability flag and the base-type handles returned for a
\* service reflect only that service's introspection: detecting the
\* extension in one service never makes isPostGISAvailable true, nor
\* supplies geometry/geography handles, for another service that lacks the
\* extension.
C27_HelpersAnswerPerService ==
    "services" \in DOMAIN gather =>
      \A s \in DOMAIN gather.services :
        getExtensionByName(gather.services[s].extensions, "postgis") = NoExtension =>
          /\ ~helpers_isPostGISAvailable(gather.state, s)
          /\ helpers_getGeometryType(gather.state, s) = NoType
          /\ helpers_getGeographyType(gather.state, s) = NoType

\* The state the detector has when the events of a service are delivered
\* with the postgis extension first, then geometry, then geography.
RECURSIVE DeliverTypes(_, _, _)
DeliverTypes(state, extensions, types) ==
    IF types = {} THEN state
    ELSE LET Rank(x) == (IF x.typname = "geometry" THEN 0 ELSE 10) + x.typnamespace
             t == CHOOSE x \in types : \A y \in types : Rank(x) <= Rank(y)
         IN DeliverTypes(pgIntrospection_type(state, extensions, t), extensions, types \ { t })

ExtensionFirst(db) ==
    LET postgis == getExtensionByName(db.extensions, "postgis")
        first == IF postgis = NoExtension THEN InitialState
                 ELSE pgIntrospection_extension(InitialState, postgis)
    IN DeliverTypes(first, db.extensions, db.types)

\* The preset has one service.
OneService == "services" \in DOMAIN gather /\ DOMAIN gather.services = { "main" }

\* C28: the detector's final state does not depend on event order: for
\* every interleaving of the postgis extension event with the geometry and
\* geography type events, the final availability flag and the two recorded
\* type handles equal those obtained when the extension event is delivered
\* first, and once set they are never reset.
C28_OrderIndependentDetector ==
    /\ [](( /\ OneService
            /\ gather.delivered = ServiceEvents(gather.services) ) =>
             LET expected == ExtensionFirst(gather.services["main"])
             IN /\ gather.state.postgisDetected = expected.postgisDetected
                /\ gather.state.geometryType = expected.geometryType
                /\ gather.state.geographyType = expected.geographyType)
    /\ [][ OneService =>
             /\ gather.state.postgisDetected => gather'.state.postgisDetected
             /\ gather.state.geometryType # NoType =>
                  gather'.state.geometryType = gather.state.geometryType
             /\ gather.state.geographyType # NoType =>
                  gather'.state.geographyType = gather.state.geographyType ]_vars

\* C28 witness: in a service with postgis all its types, a second geometry
\* in another namespace among them, were delivered before the extension,
\* and the detector has the flag and both handles.
C28_Witness ==
    /\ OneService
    /\ gather.delivered = ServiceEvents(gather.services)
    /\ gather.state.postgisDetected
    /\ gather.state.geometryType = PgType("geometry", 1)
    /\ gather.state.geographyType = PgType("geography", 1)
    /\ { ev.entity : ev \in gather.early }
         = { PgType("geometry", 1), PgType("geography", 1), PgType("geometry", 2) }

\* ------------------------------------------ claims about two builds
\* C29: with two schema builds in one process, sequential or interleaved, a
\* getPostGISGeometryType call made through build A's build object is
\* answered from build A's own registry, never from build B's; and a call
\* made before build A's init hook has completed raises the 'called before
\* init hook' error rather than returning a name from an earlier build.
C29_BuildsAnswerForThemselves ==
    ("call" \in DOMAIN build /\ build.call.through # "") =>
      IF build.call.inited
      THEN /\ ~build.call.threw
           /\ build.call.answeredBy = build.call.through
      ELSE build.call.threw

====
